---- MODULE Spec2Model ----
(***************************************************************************)
(* Model of week_8/test3.py: SmoothContinuousDataHandler, the continuous   *)
(* stream processing engine (bounded per-stream deques, z-score anomaly    *)
(* detection, exponential smoothing, display interpolation, metrics) and   *)
(* the threads that call it under its reentrant lock.                      *)
(*                                                                         *)
(* Python floats are modelled as binary floats with Precision significant *)
(* bits and an unbounded exponent, written as rationals                    *)
(* <<numerator, denominator>> in lowest terms with a positive denominator: *)
(* every float operation rounds its exact result to the nearest float,     *)
(* ties to even, and math.sqrt is correctly rounded.                       *)
(*                                                                         *)
(* Spec is the handler under a producer and a consumer thread; SpecAnomaly *)
(* starts from a stream one sample short of the 20-sample anomaly window,  *)
(* and SpecCounters adds the reader calls, register_stream and the reset   *)
(* to it; SpecRates starts from a rate window one entry short of its 50;   *)
(* SpecInterp applies _cubic_interpolation to bounded inputs; SpecAssembly *)
(* is the module's on_*_changed callbacks, which assemble (x, y, z)        *)
(* samples under the module's lock and forward them to the handler, with a *)
(* consumer thread; SpecStamps is the callbacks alone while time passes;   *)
(* SpecAfterReset refills a stream after a reset; SpecPipeline is the      *)
(* callbacks with the dashboard's callback (CSV dump, reset, graph flag,   *)
(* reads) from one composite short of INITIAL_THRESHOLD; FairSpecLocks is  *)
(* the callbacks and the consumer operations under fair scheduling;        *)
(* SpecTwoBuffer is the new-buffer / plot-buffer pipeline of               *)
(* week_8/test2.py and SpecGraph its update_graph_live callback;           *)
(* SpecSmallBuffer is a handler whose buffer is shorter than the anomaly   *)
(* window.  hist, reset_streams and arrivals are history variables: the    *)
(* samples appended to each stream since the last reset, the streams       *)
(* registered at that reset, and the readings each axis callback has       *)
(* stored.                                                                 *)
(***************************************************************************)
EXTENDS Integers, Sequences, FiniteSets, TLC

\* ------------------------------------------------------------------ bounds
\* Largest buffer_size a handler of specification Spec is constructed with.
MaxBufferSize == 2
\* Number of points a behaviour adds between two resets.
MaxAdds == 3
\* Largest reading of the clock (time.time() / datetime.now()).
MaxTime == 1
\* Longest input sequence handed to _cubic_interpolation in SpecInterp.
MaxLen == 6
\* Significant bits of the model's floats (53 in a Python float): every
\* float operation rounds its exact result to this many bits.
Precision == 6
\* Samples the streams of SpecAnomaly receive beyond the 20 of the anomaly
\* window.
MaxAnomalyAdds == 2
\* Complete (x, y, z) samples a behaviour of SpecAssembly assembles.
MaxSamples == 2
\* Readings a behaviour of SpecAssembly delivers on one axis.
MaxArrivals == 3
\* Samples a behaviour of SpecCounters adds after a reset.
MaxResetAdds == 1
\* Largest reading of the clock in SpecRates.
MaxRateTime == 3
\* Samples a behaviour of SpecRates adds.
MaxRateAdds == 2

\* --------------------------------------------------------- program constants
\* _detect_anomaly: minimum history and window length (test3.py:112, 117).
AnomalyWindow == 20
\* performance_metrics['data_rates'] = deque(maxlen=50) (test3.py:59).
DataRatesMaxLen == 50
\* INITIAL_THRESHOLD = 10: the composites the graph waits for (test3.py:258).
INITIAL_THRESHOLD == 10
\* _cubic_interpolation returns its input below this length (test3.py:192).
MinInterpLen == 4

None == "None"

\* ------------------------------------------------------------ float arithmetic
\* Exact rational arithmetic, the values the float operations round.
RECURSIVE GCD(_, _)
GCD(a, b) == IF b = 0 THEN a ELSE GCD(b, a % b)

Abs(x) == IF x < 0 THEN -x ELSE x

\* The rational n/d (d # 0) in lowest terms with a positive denominator.
RatBy(n, d, g) ==
    IF d < 0 THEN <<(-n) \div g, (-d) \div g>> ELSE <<n \div g, d \div g>>

Rat(n, d) == RatBy(n, d, GCD(Abs(n), Abs(d)))

F(n) == <<n, 1>>

\* a + b over the common denominator l.
RAddOver(a, b, l) == Rat(a[1] * (l \div a[2]) + b[1] * (l \div b[2]), l)

RAdd(a, b) == RAddOver(a, b, (a[2] \div GCD(a[2], b[2])) * b[2])

RNeg(a) == <<-a[1], a[2]>>

\* a * b with the common factors g1 of a[1], b[2] and g2 of b[1], a[2]
\* cancelled first.
RMulBy(a, b, g1, g2) ==
    Rat((a[1] \div g1) * (b[1] \div g2), (a[2] \div g2) * (b[2] \div g1))

RMul(a, b) == RMulBy(a, b, GCD(Abs(a[1]), b[2]), GCD(Abs(b[1]), a[2]))

RLess(a, b) == a[1] * b[2] < b[1] * a[2]

RECURSIVE Pow2(_)
Pow2(k) == IF k = 0 THEN 1 ELSE 2 * Pow2(k - 1)

\* Significands of a float lie in SigMin..(SigMax - 1).
SigMin == Pow2(Precision - 1)

SigMax == Pow2(Precision)

\* <<num, den, e>> with num/den * 2^e equal to the positive rational
\* n/d * 2^e0 and 2^(Precision-1) <= num/den < 2^Precision: the
\* significand and exponent of a float with Precision significant bits.
RECURSIVE Normalise(_, _, _)
Normalise(n, d, e) ==
    IF n < SigMin * d
    THEN IF d % 2 = 0 THEN Normalise(n, d \div 2, e - 1)
         ELSE Normalise(2 * n, d, e - 1)
    ELSE IF n >= SigMax * d
    THEN IF n % 2 = 0 THEN Normalise(n \div 2, d, e + 1)
         ELSE Normalise(n, 2 * d, e + 1)
    ELSE <<n, d, e>>

\* m * 2^e as a rational.
Scaled(m, e) == IF e >= 0 THEN Rat(m * Pow2(e), 1) ELSE Rat(m, Pow2(-e))

\* The integer nearest to n/d (n >= 0, d > 0), ties to the even one.
NearestEven(n, d) ==
    IF 2 * (n % d) > d \/ (2 * (n % d) = d /\ (n \div d) % 2 = 1)
    THEN (n \div d) + 1
    ELSE n \div d

\* The float of magnitude sc[1]/sc[2] * 2^sc[3] and the sign of x.
RoundSig(x, sc) ==
    IF x[1] < 0 THEN RNeg(Scaled(NearestEven(sc[1], sc[2]), sc[3]))
    ELSE Scaled(NearestEven(sc[1], sc[2]), sc[3])

\* The float nearest to the rational x, ties to the even significand
\* (IEEE 754 round-to-nearest-even; no overflow, underflow, inf or nan).
Round(x) ==
    IF x[1] = 0 THEN F(0) ELSE RoundSig(x, Normalise(Abs(x[1]), x[2], 0))

\* a + b, a - b, a * b as Python evaluates them on floats.
fadd(a, b) == Round(RAdd(a, b))

fsub(a, b) == Round(RAdd(a, RNeg(b)))

fmul(a, b) == Round(RMul(a, b))

fneg(a) == RNeg(a)

fabs(a) == <<Abs(a[1]), a[2]>>

\* a / b for b # 0; Python raises ZeroDivisionError for b = 0, which the
\* callers test with DivRaises before they use the quotient.
DivRaises(b) == b[1] = 0

fdiv(a, b) == Round(Rat(a[1] * b[2], a[2] * b[1]))

\* math.sqrt(x) for x > 0, correctly rounded: with x = y * 4^k and
\* 4^(Precision-1) <= y < 4^Precision, the significand is the integer
\* nearest to sqrt(y) (a tie cannot occur: its square has too many bits).
RECURSIVE NormaliseSq(_, _, _)
NormaliseSq(n, d, k) ==
    IF n < SigMin * SigMin * d
    THEN IF d % 4 = 0 THEN NormaliseSq(n, d \div 4, k - 1)
         ELSE NormaliseSq(4 * n, d, k - 1)
    ELSE IF n >= SigMax * SigMax * d
    THEN IF n % 4 = 0 THEN NormaliseSq(n \div 4, d, k + 1)
         ELSE NormaliseSq(n, 4 * d, k + 1)
    ELSE <<n, d, k>>

SqrtFloor(sc) ==
    CHOOSE m \in SigMin..(SigMax - 1) :
        /\ m * m * sc[2] <= sc[1]
        /\ sc[1] < (m + 1) * (m + 1) * sc[2]

\* sqrt(y) > q + 1/2  iff  4 * y > (2 * q + 1) ^ 2
SqrtSig(sc, q) ==
    IF 4 * sc[1] > (2 * q + 1) * (2 * q + 1) * sc[2] THEN q + 1 ELSE q

SqrtScaled(sc) == Scaled(SqrtSig(sc, SqrtFloor(sc)), sc[3])

fsqrt(x) == SqrtScaled(NormaliseSq(x[1], x[2], 0))

\* sum(xs): Python's left-to-right summation starting from the int 0, over
\* the n elements of the tuple xs.  partial is the list of the running
\* totals so far, 0 first.
RECURSIVE SumLoop(_, _, _)
SumLoop(xs, n, partial) ==
    IF Len(partial) > n THEN partial[Len(partial)]
    ELSE SumLoop(xs, n, Append(partial,
                               fadd(partial[Len(partial)], xs[Len(partial)])))

fsum(xs) == SumLoop(xs \o <<>>, Len(xs), <<F(0)>>)

\* The float literal nearest to the decimal n/d (0.5, 0.2, 2.5, ...).
Lit(n, d) == Round(Rat(n, d))

\* ------------------------------------------------------------- Python lists
\* values[i] with Python's 0-based index.
At(values, i) == values[i + 1]

\* values[start:end] for 0 <= start, end <= len(values).
Slice(values, start, end) == SubSeq(values, start + 1, end)

\* values[-n:] for n >= 0: the last n elements; values[-0:] is values[0:],
\* the whole list.
LastN(values, n) ==
    IF n = 0 \/ n >= Len(values) THEN values
    ELSE SubSeq(values, Len(values) - n + 1, Len(values))

Max(a, b) == IF a > b THEN a ELSE b

Min(a, b) == IF a < b THEN a ELSE b

\* collections.deque(maxlen=maxlen): its items, oldest first, and its
\* maxlen, fixed when it is created.
Deque(maxlen) == [maxlen |-> maxlen, items |-> <<>>]

\* deque.append(x): with len(dq) = maxlen the item at the left end is
\* discarded; a deque of maxlen 0 stays empty.
MutDequeAppendNoEvict(dq, x) == [dq EXCEPT !.items = Append(dq.items, x)]

DequeAppend(dq, x) ==
    IF dq.maxlen = 0 THEN dq
    ELSE IF Len(dq.items) >= dq.maxlen
         THEN [dq EXCEPT !.items = Append(Tail(dq.items), x)]
         ELSE [dq EXCEPT !.items = Append(dq.items, x)]

\* deque.clear()
DequeClear(dq) == [dq EXCEPT !.items = <<>>]

\* [point[field] for point in points]
Column(points, field) == [i \in 1..Len(points) |-> points[i][field]]

MutQualityScoreFull(is_anomaly) == F(1)

\* ------------------------------------------------------------------ samples
\* 'quality_score': 0.5 if is_anomaly else 1.0
QualityScore(is_anomaly) == IF is_anomaly THEN <<1, 2>> ELSE F(1)

\* The data_point dict built by add_data_point.
DataPoint(timestamp, value, smoothed_value, is_anomaly) ==
    [timestamp |-> timestamp,
     raw_value |-> value,
     smoothed_value |-> smoothed_value,
     is_anomaly |-> is_anomaly,
     quality_score |-> QualityScore(is_anomaly)]

\* ---------------------------------------------------------- _detect_anomaly
\* len(self.data_streams[stream_name]) < 20: return False
MutColdStartOffByOne(stream) == Len(stream.items) < AnomalyWindow - 1

ColdStart(stream) == Len(stream.items) < AnomalyWindow

\* [point['raw_value'] for point in list(stream)[-20:]]
RecentValues(stream) == Column(LastN(stream.items, AnomalyWindow), "raw_value")

\* sum(recent_values) / len(recent_values)
Mean(recent_values) == fdiv(fsum(recent_values), F(Len(recent_values)))

\* (x - mean_val) ** 2
Square(x) == fmul(x, x)

\* sum((x - mean_val) ** 2 for x in recent_values) / len(recent_values)
Variance(recent_values, mean_val) ==
    fdiv(fsum([i \in 1..Len(recent_values) |->
                  Square(fsub(recent_values[i], mean_val))]),
         F(Len(recent_values)))

\* std_dev = math.sqrt(variance) if variance > 0 else 0
StdDev(variance) == IF RLess(F(0), variance) THEN fsqrt(variance) ELSE F(0)

\* if std_dev == 0: return False
FlatWindow(std_dev) == std_dev = F(0)

\* z_score > self.anomaly_threshold
ZScoreExceeds(z_score, threshold) == RLess(threshold, z_score)

\* The outcome of a call: the exception it raises (None: it returns) and
\* the value it returns.
Returns(v) == [exc |-> None, ret |-> v]

Raises(e) == [exc |-> e, ret |-> FALSE]

\* Lines 124-129: the guard on std_dev and the z-score test.
DetectByZScore(value, mean_val, std_dev, threshold) ==
    IF FlatWindow(std_dev) THEN Returns(FALSE)
    ELSE IF DivRaises(std_dev) THEN Raises("ZeroDivisionError")
    ELSE Returns(ZScoreExceeds(fabs(fdiv(fsub(value, mean_val), std_dev)),
                               threshold))

\* Lines 121-129, with recent_values and mean_val computed.
DetectInWindow(recent_values, value, mean_val, threshold) ==
    DetectByZScore(value, mean_val, StdDev(Variance(recent_values, mean_val)),
                   threshold)

detect_anomaly(stream, value, threshold) ==
    IF ColdStart(stream) THEN Returns(FALSE)
    ELSE DetectInWindow(RecentValues(stream), value, Mean(RecentValues(stream)),
                        threshold)

\* --------------------------------------------------------- _apply_smoothing
MutSmoothingSwapped(stream, value, alpha) ==
    IF stream.items = <<>> THEN value
    ELSE fadd(fmul(fsub(F(1), alpha), value),
              fmul(alpha, stream.items[Len(stream.items)].smoothed_value))

MutSmoothingRestartsWhenFull(stream, value, alpha) ==
    IF stream.items = <<>> \/ Len(stream.items) = stream.maxlen THEN value
    ELSE fadd(fmul(alpha, value),
              fmul(fsub(F(1), alpha), stream.items[Len(stream.items)].smoothed_value))

apply_smoothing(stream, value, alpha) ==
    IF stream.items = <<>> THEN value
    ELSE LET last_point == stream.items[Len(stream.items)]
             last_smoothed == last_point.smoothed_value
         IN  fadd(fmul(alpha, value), fmul(fsub(F(1), alpha), last_smoothed))

\* ------------------------------------------------ _update_performance_metrics
MutUpdateMetricsNonZero(pm, current_time) ==
    [pm EXCEPT !.data_rates =
                   IF current_time - pm.last_update_time # 0
                   THEN DequeAppend(@, fdiv(F(1), F(current_time
                                                    - pm.last_update_time)))
                   ELSE @,
               !.last_update_time = current_time]

update_performance_metrics(pm, current_time) ==
    LET time_diff == current_time - pm.last_update_time
        rates == IF time_diff > 0
                 THEN DequeAppend(pm.data_rates, fdiv(F(1), F(time_diff)))
                 ELSE pm.data_rates
    IN  [pm EXCEPT !.data_rates = rates, !.last_update_time = current_time]

\* ------------------------------------------------------ _cubic_interpolation
MutFourPointMidpoint(p0, p1, p2, p3) == fmul(<<1, 2>>, fadd(p1, p2))

\* 0.5 * (2*p1 + (-p0 + p2) + (2*p0 - 5*p1 + 4*p2 - p3))
FourPoint(p0, p1, p2, p3) ==
    fmul(<<1, 2>>,
         fadd(fadd(fmul(F(2), p1), fadd(fneg(p0), p2)),
              fsub(fadd(fsub(fmul(F(2), p0), fmul(F(5), p1)), fmul(F(4), p2)),
                   p3)))

MutWeightsLeading == <<<<1, 2>>, <<1, 4>>, <<1, 4>>>>

MutWeightsUnnormalised == <<<<1, 4>>, <<1, 2>>, <<1, 2>>>>

\* weights = [0.25, 0.5, 0.25]
Weights == <<<<1, 4>>, <<1, 2>>, <<1, 4>>>>

\* The loop over enumerate(values[start_idx:end_idx]): the pair
\* <<weighted_sum, weight_sum>> after the elements from position j on.
RECURSIVE WeightedLoop(_, _, _)
WeightedLoop(window, j, acc) ==
    IF j >= Len(window) THEN acc
    ELSE IF j < Len(Weights)
         THEN WeightedLoop(window, j + 1,
                           <<fadd(acc[1], fmul(At(window, j), At(Weights, j))),
                             fadd(acc[2], At(Weights, j))>>)
         ELSE WeightedLoop(window, j + 1, acc)

\* The else branch of the loop body: the weighted average around index i.
WeightedAverage(values, i) ==
    LET start_idx == Max(0, i - 1)
        end_idx == Min(Len(values), i + 2)
        sums == WeightedLoop(Slice(values, start_idx, end_idx), 0, <<F(0), F(0)>>)
    IN  IF RLess(F(0), sums[2]) THEN fdiv(sums[1], sums[2]) ELSE At(values, i)

\* One iteration of "for i in range(len(values))": the value appended.
MutInterpolatedAtNoEndpoints(values, i) ==
    IF i >= 2 /\ i < Len(values) - 2
    THEN FourPoint(At(values, i - 2), At(values, i - 1), At(values, i),
                   At(values, i + 1))
    ELSE WeightedAverage(values, i)

InterpolatedAt(values, i) ==
    IF i = 0 \/ i = Len(values) - 1 THEN At(values, i)
    ELSE IF i >= 2 /\ i < Len(values) - 2
         THEN FourPoint(At(values, i - 2), At(values, i - 1), At(values, i),
                        At(values, i + 1))
         ELSE WeightedAverage(values, i)

\* "for i in range(len(values))", i = len(interpolated).
RECURSIVE InterpolationLoop(_, _)
InterpolationLoop(values, interpolated) ==
    IF Len(interpolated) >= Len(values) THEN interpolated
    ELSE InterpolationLoop(values,
             Append(interpolated, InterpolatedAt(values, Len(interpolated))))

cubic_interpolation(values) ==
    IF Len(values) < MinInterpLen THEN values
    ELSE InterpolationLoop(values, <<>>)

\* ------------------------------------------------------------------- state
VARIABLES
    buffer_size,          \* self.buffer_size
    display_window,       \* self.display_window
    smoothing_factor,     \* self.smoothing_factor
    anomaly_threshold,    \* self.anomaly_threshold
    data_streams,         \* self.data_streams: name -> deque of data points
    smoothed_streams,     \* self.smoothed_streams: name -> deque
    performance_metrics,  \* self.performance_metrics
    data_lock,            \* self.data_lock, a threading.RLock
    clock,                \* the wall clock read by time.time()/datetime.now()
    pc,                   \* per thread: the statement it executes next
    frame,                \* per thread: the arguments and locals of its call
    raised,               \* per thread: the exception its last call raised
    hist,                 \* history: name -> every point appended since the
                          \* last reset, in arrival order
    reset_streams,        \* history: the names registered at the last reset
    interp_values,        \* SpecInterp: the argument of _cubic_interpolation
    interp_result,        \* SpecInterp: <<returned?, the list returned>>
    current_sample,       \* the module's current_sample dict
    sample_counter,       \* the module's sample_counter
    module_data_lock,     \* the module's data_lock, a threading.RLock
    callback,             \* per client thread: the on_*_changed call it runs
    arrivals,             \* history: per axis, the readings its callback stored
    graph_initialized,    \* the module's graph_initialized
    data_buffer_new,      \* test2.py: data_buffer_new
    data_buffer_plot,     \* test2.py: data_buffer_plot
    move_result           \* test2.py: <<>>, or <<the value the last call of
                          \* move_new_data_to_plot_buffer returned>>

config == <<buffer_size, display_window, smoothing_factor, anomaly_threshold>>

handler == <<data_streams, smoothed_streams, performance_metrics>>

history == <<hist, reset_streams>>

interp == <<interp_values, interp_result>>

two_buffer == <<data_buffer_new, data_buffer_plot, move_result>>

assembly ==
    <<current_sample, sample_counter, module_data_lock, callback, arrivals,
      graph_initialized, two_buffer>>

vars ==
    <<config, handler, data_lock, clock, pc, frame, raised, history, interp,
      assembly>>

\* The cloud client's thread delivers the readings; the dashboard's callback
\* thread reads, and resets on the operator's click.
Producers == {"producer"}

Consumers == {"consumer"}

Threads == Producers \cup Consumers

Names == {"x_axis", "y_axis"}

\* Raw readings the producer delivers in Spec.
Values == {F(1), F(3), F(5)}

\* smoothing_factor: the specification's 0.5 and the instance's 0.2.
Alphas == {Lit(1, 2), Lit(1, 5)}

\* anomaly_threshold: the instance's 2.5.
Thresholds == {Lit(5, 2)}

\* The empty dict.
EmptyDict == [n \in {} |-> Deque(0)]

\* ---------------------------------------------------------- threading.RLock
Unlocked == [owner |-> None, count |-> 0]

\* RLock.acquire() returns at once for the owner and for a free lock, and
\* blocks while another thread owns the lock.
MutCanAcquireNotReentrant(lock, t) == lock.owner = None

MutCanAcquireUnlocked(lock, t) == TRUE

CanAcquire(lock, t) == lock.owner \in {None, t}

Acquire(lock, t) == [owner |-> t, count |-> lock.count + 1]

\* RLock.release(), called by the owner at the end of a with block.
Release(lock) ==
    IF lock.count <= 1 THEN Unlocked ELSE [lock EXCEPT !.count = lock.count - 1]

\* ------------------------------------------------------------ observations
\* sum(len(stream) for stream in self.data_streams.values())
RECURSIVE SumLen(_, _)
SumLen(streams, names) ==
    IF names = {} THEN 0
    ELSE LET n == CHOOSE x \in names : TRUE
         IN  Len(streams[n].items) + SumLen(streams, names \ {n})

BufferUsage(streams) == SumLen(streams, DOMAIN streams)

\* The number of points appended to all streams since the last reset.
RECURSIVE SumHist(_, _)
SumHist(h, names) ==
    IF names = {} THEN 0
    ELSE LET n == CHOOSE x \in names : TRUE
         IN  Len(h[n]) + SumHist(h, names \ {n})

Appended(h) == SumHist(h, DOMAIN h)

IdleFrame ==
    [stream_name |-> None, value |-> F(0), timestamp |-> 0,
     is_anomaly |-> FALSE, caller |-> None]

\* ---------------------------------------------------------------- __init__
InitHandler ==
    /\ data_streams = EmptyDict
    /\ smoothed_streams = EmptyDict
    /\ performance_metrics =
           [total_points |-> 0, anomalies_detected |-> 0,
            data_rates |-> Deque(DataRatesMaxLen), last_update_time |-> clock]
    /\ data_lock = Unlocked

InitThreads ==
    /\ clock = 0
    /\ pc = [t \in Threads |-> "idle"]
    /\ frame = [t \in Threads |-> IdleFrame]
    /\ raised = [t \in Threads |-> None]

InitInterp ==
    /\ interp_values = <<>>
    /\ interp_result = <<FALSE, <<>>>>

\* The threads that run the client's on_write callbacks.
Callbacks == Producers \cup {"producer_2"}

\* The axes in the order add_complete_sample_to_handler forwards them, with
\* their keys of current_sample and their streams.
AxisOrder == <<"x", "y", "z">>

Axes == {AxisOrder[i] : i \in 1..Len(AxisOrder)}

ValueKey == [x |-> "x_value", y |-> "y_value", z |-> "z_value"]

TimestampKey == [x |-> "x_timestamp", y |-> "y_timestamp", z |-> "z_timestamp"]

StreamOf == [x |-> "x_axis", y |-> "y_axis", z |-> "z_axis"]

\* current_sample with its six fields None: <<>> is None, <<v>> the value v.
UnsetSample ==
    [k \in {ValueKey[a] : a \in Axes} \cup {TimestampKey[a] : a \in Axes} |-> <<>>]

IdleCallback == [pc |-> "idle", axis |-> None, value |-> F(0), next |-> 0]

InitAssembly ==
    /\ current_sample = UnsetSample
    /\ sample_counter = 0
    /\ module_data_lock = Unlocked
    /\ callback = [t \in Callbacks |-> IdleCallback]
    /\ arrivals = [a \in Axes |-> 0]
    /\ graph_initialized = FALSE
    /\ data_buffer_new = <<>>
    /\ data_buffer_plot = <<>>
    /\ move_result = <<>>

Init ==
    /\ buffer_size \in 1..MaxBufferSize
    /\ display_window \in 0..buffer_size
    /\ smoothing_factor \in Alphas
    /\ anomaly_threshold \in Thresholds
    /\ InitThreads
    /\ InitHandler
    /\ hist = EmptyDict
    /\ reset_streams = {}
    /\ InitInterp
    /\ InitAssembly

\* ---------------------------------------------------------- register_stream
\* A thread calls register_stream(stream_name): with self.data_lock:
register_stream_acquire(t, stream_name) ==
    /\ pc[t] = "idle"
    /\ CanAcquire(data_lock, t)
    /\ data_lock' = Acquire(data_lock, t)
    /\ pc' = [pc EXCEPT ![t] = "register_body"]
    /\ frame' = [frame EXCEPT ![t] = [IdleFrame EXCEPT !.stream_name = stream_name,
                                                     !.caller = "thread"]]
    /\ raised' = [raised EXCEPT ![t] = None]
    /\ UNCHANGED <<config, handler, clock, history, interp, assembly>>

\* add_data_point calls self.register_stream(stream_name): with
\* self.data_lock: again, in the thread that holds the lock.
register_stream_reacquire(t) ==
    /\ pc[t] = "add_register"
    /\ CanAcquire(data_lock, t)
    /\ data_lock' = Acquire(data_lock, t)
    /\ pc' = [pc EXCEPT ![t] = "register_body"]
    /\ UNCHANGED <<config, handler, clock, frame, raised, history, interp, assembly>>

\* The dict after "if stream_name not in self.data_streams:
\* self.data_streams[stream_name] = deque(maxlen=self.buffer_size)".
MutRegisteredAlways(streams, stream_name, maxlen) ==
    [n \in DOMAIN streams \cup {stream_name} |->
        IF n = stream_name THEN Deque(maxlen) ELSE streams[n]]

Registered(streams, stream_name, maxlen) ==
    IF stream_name \in DOMAIN streams THEN streams
    ELSE streams @@ (stream_name :> Deque(maxlen))

\* The body of the with block, the release of the lock and the return.
register_stream_body(t) ==
    LET stream_name == frame[t].stream_name
    IN  /\ pc[t] = "register_body"
        /\ data_streams' = Registered(data_streams, stream_name, buffer_size)
        /\ smoothed_streams' =
               IF stream_name \in DOMAIN data_streams THEN smoothed_streams
               ELSE [n \in DOMAIN smoothed_streams \cup {stream_name} |->
                        IF n = stream_name THEN Deque(buffer_size)
                        ELSE smoothed_streams[n]]
        /\ hist' = IF stream_name \in DOMAIN data_streams'
                      /\ stream_name \notin DOMAIN data_streams
                   THEN [n \in DOMAIN hist \cup {stream_name} |->
                            IF n = stream_name THEN <<>> ELSE hist[n]]
                   ELSE hist
        /\ data_lock' = Release(data_lock)
        /\ IF frame[t].caller = "add_data_point"
           THEN /\ pc' = [pc EXCEPT ![t] = "add_detect"]
                /\ UNCHANGED frame
           ELSE /\ pc' = [pc EXCEPT ![t] = "idle"]
                /\ frame' = [frame EXCEPT ![t] = IdleFrame]
        /\ UNCHANGED <<config, performance_metrics, clock, raised, reset_streams,
                       interp, assembly>>

\* ----------------------------------------------------------- add_data_point
\* A thread calls add_data_point(stream_name, value, timestamp) and enters
\* "with self.data_lock:".  timestamp is <<>> for None, which the call
\* replaces by datetime.now() before it waits for the lock, and <<ts>> for a
\* datetime ts the caller read from the clock earlier.  The test "if
\* stream_name not in self.data_streams" sends the thread into
\* register_stream.
add_data_point_acquire(t, stream_name, value, timestamp) ==
    /\ pc[t] = "idle"
    /\ CanAcquire(data_lock, t)
    /\ data_lock' = Acquire(data_lock, t)
    /\ pc' = [pc EXCEPT ![t] = IF stream_name \notin DOMAIN data_streams
                               THEN "add_register" ELSE "add_detect"]
    /\ frame' = [frame EXCEPT ![t] =
                    [IdleFrame EXCEPT !.stream_name = stream_name,
                                      !.value = value,
                                      !.timestamp = IF timestamp = <<>> THEN clock
                                                    ELSE timestamp[1],
                                      !.caller = "add_data_point"]]
    /\ raised' = [raised EXCEPT ![t] = None]
    /\ UNCHANGED <<config, handler, clock, history, interp, assembly>>

\* is_anomaly = self._detect_anomaly(...); if is_anomaly: anomalies += 1.
\* An exception leaves the with block, which releases the lock.
add_data_point_detect(t) ==
    /\ pc[t] = "add_detect"
    /\ \E r \in {detect_anomaly(data_streams[frame[t].stream_name], frame[t].value,
                                anomaly_threshold)} :
           IF r.exc # None
           THEN /\ data_lock' = Release(data_lock)
                /\ pc' = [pc EXCEPT ![t] = "idle"]
                /\ frame' = [frame EXCEPT ![t] = IdleFrame]
                /\ raised' = [raised EXCEPT ![t] = r.exc]
                /\ UNCHANGED performance_metrics
           ELSE /\ performance_metrics' =
                       IF r.ret
                       THEN [performance_metrics EXCEPT !.anomalies_detected = @ + 1]
                       ELSE performance_metrics
                /\ pc' = [pc EXCEPT ![t] = "add_store"]
                /\ frame' = [frame EXCEPT ![t].is_anomaly = r.ret]
                /\ UNCHANGED <<data_lock, raised>>
    /\ UNCHANGED <<config, data_streams, smoothed_streams, clock, history, interp, assembly>>

\* smoothed_value = self._apply_smoothing(...); data_point = {...};
\* self.data_streams[stream_name].append(data_point)
add_data_point_store(t) ==
    LET stream_name == frame[t].stream_name
        smoothed_value == apply_smoothing(data_streams[stream_name],
                                          frame[t].value, smoothing_factor)
        data_point == DataPoint(frame[t].timestamp, frame[t].value,
                                smoothed_value, frame[t].is_anomaly)
    IN  /\ pc[t] = "add_store"
        /\ data_streams' = [data_streams EXCEPT ![stream_name] =
                                DequeAppend(@, data_point)]
        /\ hist' = [hist EXCEPT ![stream_name] = Append(@, data_point)]
        /\ pc' = [pc EXCEPT ![t] = "add_count"]
        /\ UNCHANGED <<config, smoothed_streams, performance_metrics, data_lock,
                       clock, frame, raised, reset_streams, interp, assembly>>

\* self.performance_metrics['total_points'] += 1;
\* self._update_performance_metrics(); the with block ends.
add_data_point_count(t) ==
    /\ pc[t] = "add_count"
    /\ performance_metrics' =
           update_performance_metrics(
               [performance_metrics EXCEPT !.total_points = @ + 1], clock)
    /\ data_lock' = Release(data_lock)
    /\ pc' = [pc EXCEPT ![t] = "idle"]
    /\ frame' = [frame EXCEPT ![t] = IdleFrame]
    /\ UNCHANGED <<config, data_streams, smoothed_streams, clock, raised, history,
                   interp, assembly>>

\* --------------------------------------------------------- get_display_data
\* The tuple get_display_data(stream_name) returns.
DisplayData(streams, stream_name, window) ==
    IF stream_name \notin DOMAIN streams THEN <<<<>>, <<>>, <<>>>>
    ELSE LET recent_data == LastN(streams[stream_name].items, window)
             timestamps == Column(recent_data, "timestamp")
             raw_values == Column(recent_data, "raw_value")
             smoothed_values == Column(recent_data, "smoothed_value")
         IN  IF recent_data = <<>> THEN <<<<>>, <<>>, <<>>>>
             ELSE IF Len(smoothed_values) >= MinInterpLen
             THEN <<timestamps, raw_values, cubic_interpolation(smoothed_values)>>
             ELSE <<timestamps, raw_values, smoothed_values>>

\* A thread calls get_display_data(stream_name): with self.data_lock:
get_display_data_acquire(t, stream_name) ==
    /\ pc[t] = "idle"
    /\ CanAcquire(data_lock, t)
    /\ data_lock' = Acquire(data_lock, t)
    /\ pc' = [pc EXCEPT ![t] = "display_body"]
    /\ frame' = [frame EXCEPT ![t] = [IdleFrame EXCEPT !.stream_name = stream_name,
                                                     !.caller = "thread"]]
    /\ raised' = [raised EXCEPT ![t] = None]
    /\ UNCHANGED <<config, handler, clock, history, interp, assembly>>

MutGetDisplayDataRegisters(t) ==
    /\ pc[t] = "display_body"
    /\ data_streams' = Registered(data_streams, frame[t].stream_name, buffer_size)
    /\ data_lock' = Release(data_lock)
    /\ pc' = [pc EXCEPT ![t] = "idle"]
    /\ frame' = [frame EXCEPT ![t] = IdleFrame]
    /\ UNCHANGED <<config, smoothed_streams, performance_metrics, clock, raised,
                   history, interp, assembly>>

MutGetDisplayDataWritesBack(t) ==
    /\ pc[t] = "display_body"
    /\ LET n == frame[t].stream_name
           shown == DisplayData(data_streams, n, display_window)[3]
       IN  data_streams' =
               IF shown = <<>> THEN data_streams
               ELSE LET items == data_streams[n].items
                        skip == Len(items) - Len(shown)
                    IN  [data_streams EXCEPT ![n].items =
                            [i \in 1..Len(items) |->
                                IF i <= skip THEN items[i]
                                ELSE [items[i] EXCEPT
                                         !.smoothed_value = shown[i - skip]]]]
    /\ data_lock' = Release(data_lock)
    /\ pc' = [pc EXCEPT ![t] = "idle"]
    /\ frame' = [frame EXCEPT ![t] = IdleFrame]
    /\ UNCHANGED <<config, smoothed_streams, performance_metrics, clock, raised,
                   history, interp, assembly>>

\* The body of the with block, which builds the tuple
\* DisplayData(data_streams, stream_name, display_window), and the return.
get_display_data_body(t) ==
    /\ pc[t] = "display_body"
    /\ data_lock' = Release(data_lock)
    /\ pc' = [pc EXCEPT ![t] = "idle"]
    /\ frame' = [frame EXCEPT ![t] = IdleFrame]
    /\ UNCHANGED <<config, handler, clock, raised, history, interp, assembly>>

\* ---------------------------------------------------- get_performance_stats
MutAvgRateLatest(data_rates) ==
    IF data_rates.items = <<>> THEN F(0)
    ELSE data_rates.items[Len(data_rates.items)]

\* sum(data_rates) / len(data_rates) if data_rates else 0
AvgRate(data_rates) ==
    IF data_rates.items = <<>> THEN F(0)
    ELSE fdiv(fsum(data_rates.items), F(Len(data_rates.items)))

\* The dict get_performance_stats() returns.
PerformanceStats(streams, pm) ==
    [total_points |-> pm.total_points,
     anomalies |-> pm.anomalies_detected,
     avg_data_rate |-> AvgRate(pm.data_rates),
     buffer_usage |-> BufferUsage(streams)]

\* A thread calls get_performance_stats(): with self.data_lock:
get_performance_stats_acquire(t) ==
    /\ pc[t] = "idle"
    /\ CanAcquire(data_lock, t)
    /\ data_lock' = Acquire(data_lock, t)
    /\ pc' = [pc EXCEPT ![t] = "stats_body"]
    /\ frame' = [frame EXCEPT ![t] = [IdleFrame EXCEPT !.caller = "thread"]]
    /\ raised' = [raised EXCEPT ![t] = None]
    /\ UNCHANGED <<config, handler, clock, history, interp, assembly>>

\* The body of the with block, which builds the dict
\* PerformanceStats(data_streams, performance_metrics), and the return.
get_performance_stats_body(t) ==
    /\ pc[t] = "stats_body"
    /\ data_lock' = Release(data_lock)
    /\ pc' = [pc EXCEPT ![t] = "idle"]
    /\ frame' = [frame EXCEPT ![t] = IdleFrame]
    /\ UNCHANGED <<config, handler, clock, raised, history, interp, assembly>>

\* -------------------------------------------------------------------- reset
\* update_advanced_graph, trigger 'reset-advanced-btn':
\* with data_handler.data_lock:
reset_acquire(t) ==
    /\ pc[t] = "idle"
    /\ CanAcquire(data_lock, t)
    /\ data_lock' = Acquire(data_lock, t)
    /\ pc' = [pc EXCEPT ![t] = "reset_body"]
    /\ frame' = [frame EXCEPT ![t] = [IdleFrame EXCEPT !.caller = "thread"]]
    /\ raised' = [raised EXCEPT ![t] = None]
    /\ UNCHANGED <<config, handler, clock, history, interp, assembly>>

\* "for stream_name in data_handler.data_streams: ...clear()" on a dict.
MutClearedFirstOnly(streams) ==
    [n \in DOMAIN streams |->
        IF n = (CHOOSE m \in DOMAIN streams : TRUE) THEN DequeClear(streams[n])
        ELSE streams[n]]

MutClearedKeepsLast(streams) ==
    [n \in DOMAIN streams |->
        [streams[n] EXCEPT !.items = LastN(streams[n].items, 1)]]

Cleared(streams) == [n \in DOMAIN streams |-> DequeClear(streams[n])]

MutResetKeepsAnomalies(t) ==
    /\ pc[t] = "reset_body"
    /\ data_streams' = Cleared(data_streams)
    /\ smoothed_streams' = Cleared(smoothed_streams)
    /\ performance_metrics' = [performance_metrics EXCEPT !.total_points = 0]
    /\ hist' = [n \in DOMAIN hist |-> <<>>]
    /\ reset_streams' = DOMAIN data_streams
    /\ data_lock' = Release(data_lock)
    /\ pc' = [pc EXCEPT ![t] = "idle"]
    /\ frame' = [frame EXCEPT ![t] = IdleFrame]
    /\ UNCHANGED <<config, clock, raised, interp, assembly>>

MutResetClearsRates(t) ==
    /\ pc[t] = "reset_body"
    /\ data_streams' = Cleared(data_streams)
    /\ smoothed_streams' = Cleared(smoothed_streams)
    /\ performance_metrics' =
           [performance_metrics EXCEPT !.anomalies_detected = 0,
                                       !.total_points = 0,
                                       !.data_rates = DequeClear(@)]
    /\ hist' = [n \in DOMAIN hist |-> <<>>]
    /\ reset_streams' = DOMAIN data_streams
    /\ data_lock' = Release(data_lock)
    /\ pc' = [pc EXCEPT ![t] = "idle"]
    /\ frame' = [frame EXCEPT ![t] = IdleFrame]
    /\ UNCHANGED <<config, clock, raised, interp, assembly>>

\* The body of the with block: both dicts cleared stream by stream,
\* anomalies_detected = 0, total_points = 0; the with block ends.
reset_body(t) ==
    /\ pc[t] = "reset_body"
    /\ data_streams' = Cleared(data_streams)
    /\ smoothed_streams' = Cleared(smoothed_streams)
    /\ performance_metrics' = [performance_metrics EXCEPT !.anomalies_detected = 0,
                                                          !.total_points = 0]
    /\ hist' = [n \in DOMAIN hist |-> <<>>]
    /\ reset_streams' = DOMAIN data_streams
    /\ data_lock' = Release(data_lock)
    /\ pc' = [pc EXCEPT ![t] = "idle"]
    /\ frame' = [frame EXCEPT ![t] = IdleFrame]
    /\ UNCHANGED <<config, clock, raised, interp, assembly>>

\* -------------------------------------------------------------------- clock
\* Time passes.
Tick ==
    /\ clock < MaxTime
    /\ clock' = clock + 1
    /\ UNCHANGED <<config, handler, data_lock, pc, frame, raised, history,
                   interp, assembly>>

\* ------------------------------------------------------------ specification
\* timestamp arguments of add_data_point: None, or a reading of the clock
\* taken before the call.
Timestamps == {<<>>} \cup {<<ts>> : ts \in 0..clock}

Next ==
    \/ \E t \in Producers, n \in Names : register_stream_acquire(t, n)
    \/ \E t \in Threads : register_stream_reacquire(t)
    \/ \E t \in Threads : register_stream_body(t)
    \/ \E t \in Producers, n \in Names, v \in Values, ts \in Timestamps :
           Appended(hist) < MaxAdds /\ add_data_point_acquire(t, n, v, ts)
    \/ \E t \in Threads : add_data_point_detect(t)
    \/ \E t \in Threads : add_data_point_store(t)
    \/ \E t \in Threads : add_data_point_count(t)
    \/ \E t \in Consumers, n \in Names : get_display_data_acquire(t, n)
    \/ \E t \in Threads : get_display_data_body(t)
    \/ \E t \in Consumers : get_performance_stats_acquire(t)
    \/ \E t \in Threads : get_performance_stats_body(t)
    \/ \E t \in Consumers : reset_acquire(t)
    \/ \E t \in Threads : reset_body(t)
    \/ Tick

Spec == Init /\ [][Next]_vars


\* ------------------------------------------------- interpolation on its own
\* Sequences of at most n elements of S.
RECURSIVE SeqsUpTo(_, _)
SeqsUpTo(S, n) ==
    IF n = 0 THEN {<<>>}
    ELSE LET shorter == SeqsUpTo(S, n - 1)
         IN  shorter \cup {Append(q, x) : q \in {r \in shorter : Len(r) = n - 1},
                                          x \in S}

\* Smoothed values handed to _cubic_interpolation.
InterpValues == {F(0), F(1), F(0 - 3), Lit(1, 10)}

\* Further inputs of _cubic_interpolation: a ramp.
InterpExamples == {<<F(1), F(2), F(3), F(4), F(5)>>}

InitInterpolation ==
    /\ buffer_size = 1
    /\ display_window = 1
    /\ smoothing_factor \in Alphas
    /\ anomaly_threshold \in Thresholds
    /\ InitThreads
    /\ InitHandler
    /\ hist = EmptyDict
    /\ reset_streams = {}
    /\ interp_values \in SeqsUpTo(InterpValues, MaxLen) \cup InterpExamples
    /\ interp_result = <<FALSE, <<>>>>
    /\ InitAssembly

\* interpolated_values = self._cubic_interpolation(smoothed_values)
cubic_interpolation_call ==
    /\ ~interp_result[1]
    /\ interp_result' = <<TRUE, cubic_interpolation(interp_values)>>
    /\ UNCHANGED <<config, handler, data_lock, clock, pc, frame, raised, history,
                   interp_values, assembly>>

NextInterp == cubic_interpolation_call

SpecInterp == InitInterpolation /\ [][NextInterp]_vars

\* ------------------------------------------ a stream at the 20-sample window
\* Raw values of the first AnomalyWindow - 1 samples of x_axis: one value,
\* then two values in turn.
PrefillPatterns ==
    {<<first, ab[1], ab[2]>> :
        first \in {F(1), Lit(11, 10)},
        ab \in {<<F(1), F(1)>>, <<Lit(11, 10), Lit(11, 10)>>, <<F(0 - 1), F(1)>>}}

PrefillRaws(p) ==
    [i \in 1..(AnomalyWindow - 1) |->
        IF i = 1 THEN p[1] ELSE IF i % 2 = 0 THEN p[2] ELSE p[3]]

\* The stream after add_data_point(stream_name, raws[i]) for i = 1..len(raws)
\* on an empty stream, at one clock reading.
RECURSIVE Prefilled(_, _, _, _)
Prefilled(raws, stream, alpha, threshold) ==
    IF Len(stream.items) >= Len(raws) THEN stream
    ELSE LET value == raws[Len(stream.items) + 1]
             is_anomaly == detect_anomaly(stream, value, threshold).ret
             smoothed_value == apply_smoothing(stream, value, alpha)
         IN  Prefilled(raws,
                       DequeAppend(stream, DataPoint(0, value, smoothed_value,
                                                     is_anomaly)),
                       alpha, threshold)

\* Raw readings the producer delivers in SpecAnomaly.
AnomalyValues == {F(1), F(0 - 1), Lit(11, 10), F(2), F(3), F(10), F(0 - 10)}

\* anomaly_threshold: the specification's 3 and the instance's 2.5.
AnomalyThresholds == {F(3), Lit(5, 2)}

InitAnomaly ==
    /\ buffer_size \in AnomalyWindow..(AnomalyWindow + 1)
    /\ display_window = buffer_size
    /\ smoothing_factor = Lit(1, 2)
    /\ anomaly_threshold \in AnomalyThresholds
    /\ InitThreads
    /\ \E p \in PrefillPatterns :
          LET stream == Prefilled(PrefillRaws(p), Deque(buffer_size),
                                  smoothing_factor, anomaly_threshold)
          IN  /\ data_streams = [n \in {"x_axis"} |-> stream]
              /\ hist = [n \in {"x_axis"} |-> stream.items]
              /\ performance_metrics =
                     [total_points |-> Len(stream.items), anomalies_detected |-> 0,
                      data_rates |-> Deque(DataRatesMaxLen),
                      last_update_time |-> clock]
    /\ smoothed_streams = [n \in {"x_axis"} |-> Deque(buffer_size)]
    /\ data_lock = Unlocked
    /\ reset_streams = {}
    /\ InitInterp
    /\ InitAssembly

NextAnomaly ==
    \/ \E t \in Producers, n \in Names :
         \E v \in IF n = "x_axis" THEN AnomalyValues ELSE {F(10)} :
           /\ Appended(hist) < AnomalyWindow + MaxAnomalyAdds
           /\ add_data_point_acquire(t, n, v, <<>>)
    \/ \E t \in Threads : register_stream_reacquire(t)
    \/ \E t \in Threads : register_stream_body(t)
    \/ \E t \in Threads : add_data_point_detect(t)
    \/ \E t \in Threads : add_data_point_store(t)
    \/ \E t \in Threads : add_data_point_count(t)

SpecAnomaly == InitAnomaly /\ [][NextAnomaly]_vars

\* ------------------------------------------ a buffer shorter than the window
\* A handler constructed with buffer_size below the 20 of the anomaly
\* window, after AnomalyWindow - 1 calls add_data_point('x_axis', ...) at
\* one clock reading: the buffer holds the last buffer_size samples.
InitSmallBuffer ==
    /\ buffer_size \in {1, AnomalyWindow - 2, AnomalyWindow - 1}
    /\ display_window = buffer_size
    /\ smoothing_factor = Lit(1, 2)
    /\ anomaly_threshold \in AnomalyThresholds
    /\ InitThreads
    /\ \E p \in PrefillPatterns :
       \E points \in {Prefilled(PrefillRaws(p), Deque(AnomalyWindow - 1),
                                smoothing_factor, anomaly_threshold).items} :
          /\ data_streams =
                 [n \in {"x_axis"} |->
                     [Deque(buffer_size) EXCEPT
                         !.items = LastN(points, buffer_size)]]
          /\ hist = [n \in {"x_axis"} |-> points]
          /\ performance_metrics =
                 [total_points |-> Len(points), anomalies_detected |-> 0,
                  data_rates |-> Deque(DataRatesMaxLen),
                  last_update_time |-> clock]
    /\ smoothed_streams = [n \in {"x_axis"} |-> Deque(buffer_size)]
    /\ data_lock = Unlocked
    /\ reset_streams = {}
    /\ InitInterp
    /\ InitAssembly

SpecSmallBuffer == InitSmallBuffer /\ [][NextAnomaly]_vars


\* ------------------------------------- the counters past the 20-sample window
\* Raw readings the producer delivers to x_axis in SpecCounters.
CounterValues == {F(1), F(10), F(0 - 10)}

\* The handler of SpecAnomaly under every operation: add_data_point,
\* register_stream, the two reader calls and the reset.
NextCounters ==
    \/ \E t \in Producers, n \in Names :
         \E v \in IF n = "x_axis" THEN CounterValues ELSE {F(10)} :
           /\ Appended(hist) < IF reset_streams = {}
                                THEN AnomalyWindow + MaxAnomalyAdds
                                ELSE MaxResetAdds
           /\ add_data_point_acquire(t, n, v, <<>>)
    \/ \E t \in Producers, n \in Names : register_stream_acquire(t, n)
    \/ \E t \in Threads : register_stream_reacquire(t)
    \/ \E t \in Threads : register_stream_body(t)
    \/ \E t \in Threads : add_data_point_detect(t)
    \/ \E t \in Threads : add_data_point_store(t)
    \/ \E t \in Threads : add_data_point_count(t)
    \/ \E t \in Consumers, n \in Names : get_display_data_acquire(t, n)
    \/ \E t \in Threads : get_display_data_body(t)
    \/ \E t \in Consumers : get_performance_stats_acquire(t)
    \/ \E t \in Threads : get_performance_stats_body(t)
    \/ \E t \in Consumers : reset_acquire(t)
    \/ \E t \in Threads : reset_body(t)

SpecCounters == InitAnomaly /\ [][NextCounters]_vars

\* ------------------------------------------- a stream refilled after a reset
\* The handler of SpecAnomaly with the reset: x_axis receives readings, is
\* reset, and receives up to AnomalyWindow + MaxResetAdds readings more, the
\* first AnomalyWindow - 2 of them of value 1.
NextAfterReset ==
    \/ \E t \in Producers :
         \E v \in IF reset_streams = {} \/ Len(hist["x_axis"]) >= AnomalyWindow - 2
                  THEN CounterValues ELSE {F(1)} :
           /\ Len(hist["x_axis"]) < AnomalyWindow + (IF reset_streams = {}
                                                     THEN MaxAnomalyAdds
                                                     ELSE MaxResetAdds)
           /\ add_data_point_acquire(t, "x_axis", v, <<>>)
    \/ \E t \in Threads : add_data_point_detect(t)
    \/ \E t \in Threads : add_data_point_store(t)
    \/ \E t \in Threads : add_data_point_count(t)
    \/ \E t \in Consumers : reset_acquire(t)
    \/ \E t \in Threads : reset_body(t)

SpecAfterReset == InitAnomaly /\ [][NextAfterReset]_vars


\* ------------------------------------------------ the rate window at its limit
\* Samples x_axis has received before the first state of SpecRates: none, or
\* one fewer than the rate window holds.
PrefilledRates == DataRatesMaxLen - 1

\* The rates pushed by those samples: two rates in turn.
RatePatterns == {<<F(1), F(1)>>, <<Lit(1, 2), Lit(1, 3)>>}

PrefillRates(p, n) == [i \in 1..n |-> IF i % 2 = 1 THEN p[1] ELSE p[2]]

\* The handler after n calls add_data_point('x_axis', 1.0, timestamp) that
\* pushed the rates, the last of them at the reading 0 of the clock: each
\* sample is stored unflagged (fewer than 20 in the buffer) and smoothed to
\* 0.5 * 1.0 + 0.5 * 1.0.
InitRates ==
    /\ buffer_size = 1
    /\ display_window = 1
    /\ smoothing_factor = Lit(1, 2)
    /\ anomaly_threshold \in Thresholds
    /\ InitThreads
    /\ \E n \in {0, PrefilledRates}, p \in RatePatterns :
          LET points == [i \in 1..n |-> DataPoint(0, F(1), F(1), FALSE)]
          IN  /\ data_streams =
                     [s \in {"x_axis"} |->
                         [Deque(buffer_size) EXCEPT
                             !.items = LastN(points, buffer_size)]]
              /\ hist = [s \in {"x_axis"} |-> points]
              /\ performance_metrics =
                     [total_points |-> n, anomalies_detected |-> 0,
                      data_rates |-> [Deque(DataRatesMaxLen) EXCEPT
                                         !.items = PrefillRates(p, n)],
                      last_update_time |-> clock]
    /\ smoothed_streams = [s \in {"x_axis"} |-> Deque(buffer_size)]
    /\ data_lock = Unlocked
    /\ reset_streams = {}
    /\ InitInterp
    /\ InitAssembly

\* Samples added since the first state of SpecRates.
RateAdds ==
    IF Appended(hist) < PrefilledRates THEN Appended(hist)
    ELSE Appended(hist) - PrefilledRates

\* time.time() is the wall clock: a later reading may be larger, or smaller
\* after the clock was set back.
ClockStep ==
    /\ \E c \in 0..MaxRateTime : c # clock /\ clock' = c
    /\ UNCHANGED <<config, handler, data_lock, pc, frame, raised, history,
                   interp, assembly>>

NextRates ==
    \/ \E t \in Producers :
           RateAdds < MaxRateAdds /\ add_data_point_acquire(t, "x_axis", F(1), <<>>)
    \/ \E t \in Threads : add_data_point_detect(t)
    \/ \E t \in Threads : add_data_point_store(t)
    \/ \E t \in Threads : add_data_point_count(t)
    \/ \E t \in Consumers : get_performance_stats_acquire(t)
    \/ \E t \in Threads : get_performance_stats_body(t)
    \/ ClockStep

SpecRates == InitRates /\ [][NextRates]_vars


\* -------------------------------------------- assembly of (x, y, z) samples
\* Readings the client delivers to the callbacks.
AxisValues == {F(1), F(3)}

\* current_sample has its three values: the test of
\* add_complete_sample_to_handler.
Complete(sample) == \A a \in Axes : sample[ValueKey[a]] # <<>>

\* on_x_changed / on_y_changed / on_z_changed(client, value) is called and
\* enters "with data_lock:".
on_changed_acquire(t, axis, value) ==
    /\ callback[t].pc = "idle"
    /\ CanAcquire(module_data_lock, t)
    /\ module_data_lock' = Acquire(module_data_lock, t)
    /\ callback' = [callback EXCEPT ![t] =
                       [IdleCallback EXCEPT !.pc = "set", !.axis = axis,
                                            !.value = value]]
    /\ UNCHANGED <<config, handler, data_lock, clock, pc, frame, raised, history,
                   interp, current_sample, sample_counter, arrivals,
                   graph_initialized, two_buffer>>

MutOnChangedSetStampsBackwards(t) ==
    /\ callback[t].pc = "set"
    /\ current_sample' =
           [current_sample EXCEPT ![ValueKey[callback[t].axis]] =
                                      <<callback[t].value>>,
                                  ![TimestampKey[callback[t].axis]] =
                                      <<MaxTime - clock>>]
    /\ callback' = [callback EXCEPT ![t].pc = "check"]
    /\ arrivals' = [arrivals EXCEPT ![callback[t].axis] = @ + 1]
    /\ UNCHANGED <<config, handler, data_lock, clock, pc, frame, raised, history,
                   interp, sample_counter, module_data_lock,
                   graph_initialized, two_buffer>>

MutOnChangedSetKeepsFirst(t) ==
    /\ callback[t].pc = "set"
    /\ current_sample' =
           IF current_sample[ValueKey[callback[t].axis]] # <<>> THEN current_sample
           ELSE [current_sample EXCEPT ![ValueKey[callback[t].axis]] =
                                           <<callback[t].value>>,
                                       ![TimestampKey[callback[t].axis]] =
                                           <<clock>>]
    /\ callback' = [callback EXCEPT ![t].pc = "check"]
    /\ arrivals' = [arrivals EXCEPT ![callback[t].axis] = @ + 1]
    /\ UNCHANGED <<config, handler, data_lock, clock, pc, frame, raised, history,
                   interp, sample_counter, module_data_lock,
                   graph_initialized, two_buffer>>

\* current_sample['x_value'] = value;
\* current_sample['x_timestamp'] = datetime.now()
on_changed_set(t) ==
    /\ callback[t].pc = "set"
    /\ current_sample' =
           [current_sample EXCEPT ![ValueKey[callback[t].axis]] =
                                      <<callback[t].value>>,
                                  ![TimestampKey[callback[t].axis]] = <<clock>>]
    /\ callback' = [callback EXCEPT ![t].pc = "check"]
    /\ arrivals' = [arrivals EXCEPT ![callback[t].axis] = @ + 1]
    /\ UNCHANGED <<config, handler, data_lock, clock, pc, frame, raised, history,
                   interp, sample_counter, module_data_lock,
                   graph_initialized, two_buffer>>

\* add_complete_sample_to_handler(): the test of the three values, and
\* sample_counter += 1 when all are set; otherwise return False.
add_complete_sample_check(t) ==
    /\ callback[t].pc = "check"
    /\ IF Complete(current_sample)
       THEN /\ sample_counter' = sample_counter + 1
            /\ callback' = [callback EXCEPT ![t].pc = "add", ![t].next = 1]
       ELSE /\ callback' = [callback EXCEPT ![t].pc = "release"]
            /\ UNCHANGED sample_counter
    /\ UNCHANGED <<config, handler, data_lock, clock, pc, frame, raised, history,
                   interp, current_sample, module_data_lock, arrivals,
                   graph_initialized, two_buffer>>

\* One call data_handler.add_data_point(stream_name, value, timestamp) from
\* its "with self.data_lock:" to its return: the steps
\* add_data_point_acquire .. add_data_point_count of one thread, which no
\* other thread can interleave with while it holds the handler's lock.
add_data_point_call(t, stream_name, value, timestamp) ==
    /\ CanAcquire(data_lock, t)
    /\ \E streams \in {Registered(data_streams, stream_name, buffer_size)} :
       \E r \in {detect_anomaly(streams[stream_name], value, anomaly_threshold)} :
       \E data_point \in {DataPoint(timestamp, value,
                                     apply_smoothing(streams[stream_name], value,
                                                     smoothing_factor),
                                     r.ret)} :
           /\ r.exc = None
           /\ data_streams' = [streams EXCEPT ![stream_name] =
                                   DequeAppend(@, data_point)]
           /\ smoothed_streams' =
                  IF stream_name \in DOMAIN smoothed_streams THEN smoothed_streams
                  ELSE [n \in DOMAIN smoothed_streams \cup {stream_name} |->
                           IF n = stream_name THEN Deque(buffer_size)
                           ELSE smoothed_streams[n]]
           /\ hist' = [n \in DOMAIN hist \cup {stream_name} |->
                          IF n = stream_name
                          THEN Append(IF n \in DOMAIN hist THEN hist[n] ELSE <<>>,
                                      data_point)
                          ELSE hist[n]]
           /\ performance_metrics' =
                  update_performance_metrics(
                      [performance_metrics EXCEPT
                          !.anomalies_detected = IF r.ret THEN @ + 1 ELSE @,
                          !.total_points = @ + 1],
                      clock)
    /\ UNCHANGED <<data_lock, reset_streams>>

\* The next of the three calls data_handler.add_data_point('x_axis', ...),
\* ('y_axis', ...), ('z_axis', ...) of add_complete_sample_to_handler.
add_complete_sample_forward(t) ==
    /\ callback[t].pc = "add"
    /\ add_data_point_call(t, StreamOf[AxisOrder[callback[t].next]],
                           current_sample[ValueKey[AxisOrder[callback[t].next]]][1],
                           current_sample[TimestampKey[AxisOrder[callback[t].next]]][1])
    /\ callback' = IF callback[t].next < Len(AxisOrder)
                   THEN [callback EXCEPT ![t].next = @ + 1]
                   ELSE [callback EXCEPT ![t].pc = "clear"]
    /\ UNCHANGED <<config, clock, pc, frame, raised, interp, current_sample,
                   sample_counter, module_data_lock, arrivals,
                   graph_initialized, two_buffer>>

MutClearSkipped(t) ==
    /\ callback[t].pc = "clear"
    /\ callback' = [callback EXCEPT ![t].pc = "release"]
    /\ UNCHANGED <<config, handler, data_lock, clock, pc, frame, raised, history,
                   interp, current_sample, sample_counter, module_data_lock, arrivals,
                   graph_initialized, two_buffer>>

\* current_sample = {...: None}; return True
add_complete_sample_clear(t) ==
    /\ callback[t].pc = "clear"
    /\ current_sample' = UnsetSample
    /\ callback' = [callback EXCEPT ![t].pc = "release"]
    /\ UNCHANGED <<config, handler, data_lock, clock, pc, frame, raised, history,
                   interp, sample_counter, module_data_lock, arrivals,
                   graph_initialized, two_buffer>>

\* The end of the callback's with block.
on_changed_release(t) ==
    /\ callback[t].pc = "release"
    /\ module_data_lock' = Release(module_data_lock)
    /\ callback' = [callback EXCEPT ![t] = IdleCallback]
    /\ UNCHANGED <<config, handler, data_lock, clock, pc, frame, raised, history,
                   interp, current_sample, sample_counter, arrivals,
                   graph_initialized, two_buffer>>

\* The module's handler with x_axis, y_axis and z_axis registered, before
\* the first reading.
InitAssemblyHandler ==
    /\ buffer_size \in 1..MaxBufferSize
    /\ display_window = buffer_size
    /\ smoothing_factor = Lit(1, 5)
    /\ anomaly_threshold \in Thresholds
    /\ InitThreads
    /\ data_streams = [n \in {StreamOf[a] : a \in Axes} |-> Deque(buffer_size)]
    /\ smoothed_streams = [n \in {StreamOf[a] : a \in Axes} |-> Deque(buffer_size)]
    /\ performance_metrics =
           [total_points |-> 0, anomalies_detected |-> 0,
            data_rates |-> Deque(DataRatesMaxLen), last_update_time |-> clock]
    /\ data_lock = Unlocked
    /\ hist = [n \in {StreamOf[a] : a \in Axes} |-> <<>>]
    /\ reset_streams = {}
    /\ InitInterp
    /\ InitAssembly

NextAssembly ==
    \/ \E t \in Callbacks, a \in Axes, v \in AxisValues :
           /\ sample_counter < MaxSamples
           /\ arrivals[a] < MaxArrivals
           /\ on_changed_acquire(t, a, v)
    \/ \E t \in Callbacks : on_changed_set(t)
    \/ \E t \in Callbacks : add_complete_sample_check(t)
    \/ \E t \in Callbacks : add_complete_sample_forward(t)
    \/ \E t \in Callbacks : add_complete_sample_clear(t)
    \/ \E t \in Callbacks : on_changed_release(t)
    \/ \E t \in Consumers, a \in Axes : get_display_data_acquire(t, StreamOf[a])
    \/ \E t \in Threads : get_display_data_body(t)
    \/ \E t \in Consumers : get_performance_stats_acquire(t)
    \/ \E t \in Threads : get_performance_stats_body(t)

SpecAssembly == InitAssemblyHandler /\ [][NextAssembly]_vars

\* The callbacks alone, all on the client's one thread, while time passes.
NextStamps ==
    \/ \E t \in Producers, a \in Axes, v \in AxisValues :
           /\ sample_counter < MaxSamples
           /\ arrivals[a] < MaxArrivals
           /\ on_changed_acquire(t, a, v)
    \/ \E t \in Callbacks : on_changed_set(t)
    \/ \E t \in Callbacks : add_complete_sample_check(t)
    \/ \E t \in Callbacks : add_complete_sample_forward(t)
    \/ \E t \in Callbacks : add_complete_sample_clear(t)
    \/ \E t \in Callbacks : on_changed_release(t)
    \/ Tick

SpecStamps == InitAssemblyHandler /\ [][NextStamps]_vars

\* ------------------------------------------------ the dashboard's callback
\* save_advanced_data_to_csv(): "with data_handler.data_lock:".
save_advanced_data_to_csv_acquire(t) ==
    /\ pc[t] = "idle"
    /\ CanAcquire(data_lock, t)
    /\ data_lock' = Acquire(data_lock, t)
    /\ pc' = [pc EXCEPT ![t] = "save_body"]
    /\ frame' = [frame EXCEPT ![t] = [IdleFrame EXCEPT !.caller = "thread"]]
    /\ raised' = [raised EXCEPT ![t] = None]
    /\ UNCHANGED <<config, handler, clock, history, interp, assembly>>

MutSaveTakesAssemblyLock(t) ==
    /\ pc[t] = "save_body"
    /\ CanAcquire(module_data_lock, t)
    /\ data_lock' = Release(data_lock)
    /\ pc' = [pc EXCEPT ![t] = "idle"]
    /\ frame' = [frame EXCEPT ![t] = IdleFrame]
    /\ UNCHANGED <<config, handler, clock, raised, history, interp, assembly>>

\* The body of the with block, which copies the points of x_axis, y_axis
\* and z_axis to all_data; the file is written after the block.
save_advanced_data_to_csv_body(t) ==
    /\ pc[t] = "save_body"
    /\ data_lock' = Release(data_lock)
    /\ pc' = [pc EXCEPT ![t] = "idle"]
    /\ frame' = [frame EXCEPT ![t] = IdleFrame]
    /\ UNCHANGED <<config, handler, clock, raised, history, interp, assembly>>

\* update_advanced_graph after its trigger branch: total_samples =
\* sample_counter; if not graph_initialized and total_samples >=
\* INITIAL_THRESHOLD: graph_initialized = True.
update_advanced_graph_check(t) ==
    /\ pc[t] = "idle"
    /\ graph_initialized' =
           IF ~graph_initialized /\ sample_counter >= INITIAL_THRESHOLD THEN TRUE
           ELSE graph_initialized
    /\ UNCHANGED <<config, handler, data_lock, clock, pc, frame, raised, history,
                   interp, current_sample, sample_counter, module_data_lock,
                   callback, arrivals, two_buffer>>

\* The module after INITIAL_THRESHOLD - 1 composites of readings 1.0, all
\* delivered at the reading 0 of the clock: one composite short of the
\* threshold of the graph.
InitPipeline ==
    /\ buffer_size \in 1..MaxBufferSize
    /\ display_window = buffer_size
    /\ smoothing_factor = Lit(1, 5)
    /\ anomaly_threshold \in Thresholds
    /\ InitThreads
    /\ \E points \in
           {Prefilled([i \in 1..(INITIAL_THRESHOLD - 1) |-> F(1)],
                      Deque(INITIAL_THRESHOLD - 1), smoothing_factor,
                      anomaly_threshold).items} :
          /\ data_streams =
                 [n \in {StreamOf[a] : a \in Axes} |->
                     [Deque(buffer_size) EXCEPT
                         !.items = LastN(points, buffer_size)]]
          /\ hist = [n \in {StreamOf[a] : a \in Axes} |-> points]
          /\ performance_metrics =
                 [total_points |-> Len(AxisOrder) * Len(points),
                  anomalies_detected |-> 0,
                  data_rates |-> Deque(DataRatesMaxLen),
                  last_update_time |-> clock]
    /\ smoothed_streams = [n \in {StreamOf[a] : a \in Axes} |-> Deque(buffer_size)]
    /\ data_lock = Unlocked
    /\ reset_streams = {}
    /\ InitInterp
    /\ current_sample = UnsetSample
    /\ sample_counter = INITIAL_THRESHOLD - 1
    /\ module_data_lock = Unlocked
    /\ callback = [t \in Callbacks |-> IdleCallback]
    /\ arrivals = [a \in Axes |-> INITIAL_THRESHOLD - 1]
    /\ graph_initialized = FALSE
    /\ data_buffer_new = <<>>
    /\ data_buffer_plot = <<>>
    /\ move_result = <<>>

\* The client's thread delivers at most one reading per axis and composite,
\* the dashboard's thread saves, resets and redraws, and time passes.
NextPipeline ==
    \/ \E t \in Producers, a \in Axes :
           /\ sample_counter < INITIAL_THRESHOLD - 1 + MaxSamples
           /\ arrivals[a] <= sample_counter
           /\ on_changed_acquire(t, a, F(3))
    \/ \E t \in Callbacks : on_changed_set(t)
    \/ \E t \in Callbacks : add_complete_sample_check(t)
    \/ \E t \in Callbacks : add_complete_sample_forward(t)
    \/ \E t \in Callbacks : add_complete_sample_clear(t)
    \/ \E t \in Callbacks : on_changed_release(t)
    \/ \E t \in Consumers : save_advanced_data_to_csv_acquire(t)
    \/ \E t \in Threads : save_advanced_data_to_csv_body(t)
    \/ \E t \in Consumers : reset_acquire(t)
    \/ \E t \in Threads : reset_body(t)
    \/ \E t \in Consumers : update_advanced_graph_check(t)
    \/ \E t \in Consumers, a \in Axes : get_display_data_acquire(t, StreamOf[a])
    \/ \E t \in Threads : get_display_data_body(t)
    \/ \E t \in Consumers : get_performance_stats_acquire(t)
    \/ \E t \in Threads : get_performance_stats_body(t)
    \/ Tick

SpecPipeline == InitPipeline /\ [][NextPipeline]_vars

\* ------------------------------------------------------- the two locks
\* Two client threads deliver readings, at most one per axis and composite,
\* while the dashboard's thread reads, saves and resets.
NextLocks ==
    \/ \E t \in Callbacks, a \in Axes :
           /\ sample_counter < MaxSamples
           /\ arrivals[a] <= sample_counter
           /\ on_changed_acquire(t, a, F(1))
    \/ \E t \in Callbacks : on_changed_set(t)
    \/ \E t \in Callbacks : add_complete_sample_check(t)
    \/ \E t \in Callbacks : add_complete_sample_forward(t)
    \/ \E t \in Callbacks : add_complete_sample_clear(t)
    \/ \E t \in Callbacks : on_changed_release(t)
    \/ \E t \in Consumers : save_advanced_data_to_csv_acquire(t)
    \/ \E t \in Threads : save_advanced_data_to_csv_body(t)
    \/ \E t \in Consumers : reset_acquire(t)
    \/ \E t \in Threads : reset_body(t)
    \/ \E t \in Consumers, a \in Axes : get_display_data_acquire(t, StreamOf[a])
    \/ \E t \in Threads : get_display_data_body(t)
    \/ \E t \in Consumers : get_performance_stats_acquire(t)
    \/ \E t \in Threads : get_performance_stats_body(t)

\* Fair scheduling: a thread that can take its next step takes it; the
\* callback waiting for the handler's lock, which the consumer takes and
\* releases again and again, gets it (strong fairness of
\* add_complete_sample_forward, which is enabled when a callback is at its
\* next add_data_point call and the handler's lock is free for it).  One
\* callback at a time is past "with data_lock:", and one consumer call at
\* a time is in its body.
FairLocks ==
    /\ WF_vars(\E t \in Callbacks : \/ on_changed_set(t)
                                     \/ add_complete_sample_check(t)
                                     \/ add_complete_sample_clear(t)
                                     \/ on_changed_release(t))
    /\ []<>(\E t \in Callbacks :
                callback[t].pc = "add" /\ CanAcquire(data_lock, t))
           => []<><<\E t \in Callbacks : add_complete_sample_forward(t)>>_vars
    /\ WF_vars(\E t \in Consumers : \/ save_advanced_data_to_csv_body(t)
                                     \/ reset_body(t)
                                     \/ get_display_data_body(t)
                                     \/ get_performance_stats_body(t))

FairSpecLocks == InitAssemblyHandler /\ [][NextLocks]_vars /\ FairLocks

\* ------------------------------------------- test2.py: new and plot buffer
\* test2.py has the callbacks on_x_changed, on_y_changed and on_z_changed of
\* test3.py, under its own data_lock (module_data_lock here), with
\* add_complete_sample_to_buffer in the place of
\* add_complete_sample_to_handler; the handler's variables are no part of it
\* and stay as constructed.
\*
\* add_complete_sample_to_buffer(): with the three values set,
\* sample_counter += 1, the composite with its sample_id is appended to
\* data_buffer_new, current_sample is reset and True is returned; otherwise
\* False is returned.
add_complete_sample_to_buffer(t) ==
    /\ callback[t].pc = "check"
    /\ IF Complete(current_sample)
       THEN /\ sample_counter' = sample_counter + 1
            /\ data_buffer_new' =
                   Append(data_buffer_new,
                          [k \in DOMAIN current_sample \cup {"sample_id"} |->
                              IF k = "sample_id" THEN sample_counter + 1
                              ELSE current_sample[k][1]])
            /\ current_sample' = UnsetSample
       ELSE UNCHANGED <<sample_counter, data_buffer_new, current_sample>>
    /\ callback' = [callback EXCEPT ![t].pc = "release"]
    /\ UNCHANGED <<config, handler, data_lock, clock, pc, frame, raised, history,
                   interp, module_data_lock, arrivals, graph_initialized,
                   data_buffer_plot, move_result>>

\* move_new_data_to_plot_buffer(): "with data_lock:".
move_new_data_to_plot_buffer_acquire(t) ==
    /\ pc[t] = "idle"
    /\ module_data_lock.owner = None
    /\ module_data_lock' = Acquire(module_data_lock, t)
    /\ pc' = [pc EXCEPT ![t] = "move_body"]
    /\ move_result' = <<>>
    /\ UNCHANGED <<config, handler, data_lock, clock, frame, raised, history,
                   interp, current_sample, sample_counter, callback, arrivals,
                   graph_initialized, data_buffer_new, data_buffer_plot>>

MutMoveKeepsNew(t) ==
    /\ pc[t] = "move_body"
    /\ data_buffer_plot' = data_buffer_plot \o data_buffer_new
    /\ move_result' = <<Len(data_buffer_new) > 0>>
    /\ module_data_lock' = Release(module_data_lock)
    /\ pc' = [pc EXCEPT ![t] = "idle"]
    /\ UNCHANGED <<config, handler, data_lock, clock, frame, raised, history,
                   interp, current_sample, sample_counter, callback, arrivals,
                   graph_initialized, data_buffer_new>>

\* if len(data_buffer_new) > 0: data_buffer_plot.extend(data_buffer_new);
\* data_buffer_new.clear(); return True -- otherwise return False.
move_new_data_to_plot_buffer_body(t) ==
    /\ pc[t] = "move_body"
    /\ IF Len(data_buffer_new) > 0
       THEN /\ data_buffer_plot' = data_buffer_plot \o data_buffer_new
            /\ data_buffer_new' = <<>>
            /\ move_result' = <<TRUE>>
       ELSE /\ move_result' = <<FALSE>>
            /\ UNCHANGED <<data_buffer_new, data_buffer_plot>>
    /\ module_data_lock' = Release(module_data_lock)
    /\ pc' = [pc EXCEPT ![t] = "idle"]
    /\ UNCHANGED <<config, handler, data_lock, clock, frame, raised, history,
                   interp, current_sample, sample_counter, callback, arrivals,
                   graph_initialized>>

\* Two client threads deliver readings while the dashboard's thread moves
\* the new samples to the plot buffer.
NextTwoBuffer ==
    \/ \E t \in Callbacks, a \in Axes, v \in AxisValues :
           /\ sample_counter < MaxSamples
           /\ arrivals[a] < MaxArrivals
           /\ on_changed_acquire(t, a, v)
    \/ \E t \in Callbacks : on_changed_set(t)
    \/ \E t \in Callbacks : add_complete_sample_to_buffer(t)
    \/ \E t \in Callbacks : on_changed_release(t)
    \/ \E t \in Consumers : move_new_data_to_plot_buffer_acquire(t)
    \/ \E t \in Threads : move_new_data_to_plot_buffer_body(t)

SpecTwoBuffer == InitAssemblyHandler /\ [][NextTwoBuffer]_vars

\* update_graph_live(n_intervals, n_clicks), triggered by the interval
\* component or by a click on the refresh button (n_clicks > 0):
\* "with data_lock: new_samples_count = len(data_buffer_new);
\* plot_samples_count = len(data_buffer_plot)".
update_graph_live_count(t, trigger_id) ==
    /\ pc[t] = "idle"
    /\ module_data_lock.owner = None
    /\ pc' = [pc EXCEPT ![t] = "update_decide"]
    /\ frame' = [frame EXCEPT ![t] =
                     [trigger_id |-> trigger_id,
                      new_samples_count |-> Len(data_buffer_new),
                      plot_samples_count |-> Len(data_buffer_plot)]]
    /\ UNCHANGED <<config, handler, data_lock, clock, raised, history, interp,
                   assembly>>

\* The trigger branches: a refresh with new samples sets should_update; an
\* interval tick with not graph_initialized and new_samples_count >=
\* INITIAL_THRESHOLD sets should_update and graph_initialized = True.  Then
\* "if should_update and move_new_data_to_plot_buffer():", which enters the
\* with block of move_new_data_to_plot_buffer; without should_update the
\* callback returns the current graph.
update_graph_live_decide(t) ==
    /\ pc[t] = "update_decide"
    /\ \E first_graph \in
           {/\ frame[t].trigger_id = "interval-component"
            /\ ~graph_initialized
            /\ frame[t].new_samples_count >= INITIAL_THRESHOLD} :
       \E should_update \in
           {\/ /\ frame[t].trigger_id = "refresh-btn"
               /\ frame[t].new_samples_count > 0
            \/ first_graph} :
          /\ graph_initialized' = (graph_initialized \/ first_graph)
          /\ IF should_update
             THEN /\ module_data_lock.owner = None
                  /\ module_data_lock' = Acquire(module_data_lock, t)
                  /\ pc' = [pc EXCEPT ![t] = "move_body"]
                  /\ move_result' = <<>>
             ELSE /\ pc' = [pc EXCEPT ![t] = "idle"]
                  /\ UNCHANGED <<module_data_lock, move_result>>
    /\ frame' = [frame EXCEPT ![t] = IdleFrame]
    /\ UNCHANGED <<config, handler, data_lock, clock, raised, history, interp,
                   current_sample, sample_counter, callback, arrivals,
                   data_buffer_new, data_buffer_plot>>

\* The client's thread delivers one reading per axis and composite while
\* the dashboard's thread runs update_graph_live on interval ticks and
\* refresh clicks.
NextGraph ==
    \/ \E t \in Producers, a \in Axes :
           /\ sample_counter <= INITIAL_THRESHOLD
           /\ arrivals[a] <= sample_counter
           /\ on_changed_acquire(t, a, F(1))
    \/ \E t \in Callbacks : on_changed_set(t)
    \/ \E t \in Callbacks : add_complete_sample_to_buffer(t)
    \/ \E t \in Callbacks : on_changed_release(t)
    \/ \E t \in Consumers, trigger_id \in {"interval-component", "refresh-btn"} :
           update_graph_live_count(t, trigger_id)
    \/ \E t \in Consumers : update_graph_live_decide(t)
    \/ \E t \in Threads : move_new_data_to_plot_buffer_body(t)

SpecGraph == InitAssemblyHandler /\ [][NextGraph]_vars


\* ================================================================ properties
\* The raw values, smoothed values and anomaly flags of a list of samples.
Raw(points) == [i \in 1..Len(points) |-> points[i].raw_value]

Smoothed(points) == [i \in 1..Len(points) |-> points[i].smoothed_value]

\* The last element of a non-empty list.
Last(xs) == xs[Len(xs)]

AllEqual(xs) == \A i \in 1..Len(xs) : xs[i] = xs[1]

\* --------------------------------------------------------------------- C1
\* C1: every stream's buffer holds at most buffer_size samples, and after
\* m appends since the last reset it holds the last min(m, buffer_size) of
\* them in arrival order: after c + k appends, the (k+1)-th .. (k+c)-th.
BufferHoldsLastCapacity ==
    \A n \in DOMAIN data_streams :
        /\ Len(data_streams[n].items) <= buffer_size
        /\ data_streams[n].maxlen = buffer_size
        /\ data_streams[n].items =
               SubSeq(hist[n],
                      Len(hist[n]) - Min(Len(hist[n]), buffer_size) + 1,
                      Len(hist[n]))

\* C1, witness: a stream of capacity 2 received a third sample and dropped
\* its first one, which differs from the second.
BufferEvictedOldest ==
    \E n \in DOMAIN data_streams :
        /\ buffer_size = 2
        /\ Len(hist[n]) = 3
        /\ hist[n][1].raw_value # hist[n][2].raw_value
        /\ Raw(data_streams[n].items) = <<hist[n][2].raw_value, hist[n][3].raw_value>>

\* --------------------------------------------------------------------- C2
Reading(t) == pc[t] \in {"stats_body", "display_body"}

\* C2, as stated: every reader call observes total_points equal to the sum
\* of the current buffer lengths (buffer_usage).
ReaderSeesTotalEqualBufferUsage ==
    \A t \in Threads :
        Reading(t) => performance_metrics.total_points = BufferUsage(data_streams)

\* C2, amended: every reader call observes total_points equal to the number
\* of samples appended to all streams since the last reset; that number is
\* at least buffer_usage, and equal to it as long as no stream has received
\* more than buffer_size samples since the last reset.
ReaderSeesTotalEqualAppended ==
    \A t \in Threads :
        Reading(t) =>
            /\ performance_metrics.total_points = Appended(hist)
            /\ BufferUsage(data_streams) <= performance_metrics.total_points
            /\ (\A n \in DOMAIN hist : Len(hist[n]) <= buffer_size)
                   => performance_metrics.total_points = BufferUsage(data_streams)

\* C2, witness: get_performance_stats runs after three appends of which the
\* buffers still hold fewer.
ReaderAfterEviction ==
    \E t \in Consumers :
        /\ pc[t] = "stats_body"
        /\ performance_metrics.total_points = 3
        /\ BufferUsage(data_streams) \in 1..2

\* --------------------------------------------------------------------- C3
\* C3: the reset empties every registered stream's buffer, zeroes
\* total_points and anomalies_detected and keeps the registered names, the
\* capacities and the configuration; an add_data_point on a stream that was
\* registered at the reset does not go through register_stream and appends
\* its sample to that stream, the set of streams unchanged.
ResetKeepsRegistrations ==
    [][\A t \in Threads :
          /\ (pc[t] = "reset_body" /\ pc'[t] = "idle") =>
                 /\ DOMAIN data_streams' = DOMAIN data_streams
                 /\ \A n \in DOMAIN data_streams :
                        /\ data_streams'[n].items = <<>>
                        /\ data_streams'[n].maxlen = data_streams[n].maxlen
                 /\ performance_metrics'.total_points = 0
                 /\ performance_metrics'.anomalies_detected = 0
                 /\ config' = config
          /\ (pc[t] = "idle" /\ frame'[t].caller = "add_data_point"
                             /\ frame'[t].stream_name \in reset_streams) =>
                 pc'[t] = "add_detect"
          /\ (pc[t] = "add_store" /\ pc'[t] = "add_count"
                                  /\ frame[t].stream_name \in reset_streams) =>
                 /\ DOMAIN data_streams' = DOMAIN data_streams
                 /\ \A n \in DOMAIN data_streams \ {frame[t].stream_name} :
                        data_streams'[n] = data_streams[n]
                 /\ Len(data_streams'[frame[t].stream_name].items) =
                        Min(Len(data_streams[frame[t].stream_name].items) + 1,
                            buffer_size)
                 /\ Last(data_streams'[frame[t].stream_name].items).raw_value =
                        frame[t].value
      ]_vars

\* C3, witness: a stream that was registered at the last reset holds a
\* sample appended after it.
AppendedAfterReset ==
    \E n \in reset_streams :
        /\ hist[n] # <<>>
        /\ data_streams[n].items = hist[n]
        /\ performance_metrics.total_points = Len(hist[n])

\* --------------------------------------------------------------------- C4
\* C4: register_stream on a registered name leaves the streams, their
\* capacities and their samples as they are; on an unseen name it adds
\* exactly one stream, empty and of capacity buffer_size, and leaves the
\* other streams as they are.
RegisterStreamIdempotent ==
    [][\A t \in Threads :
          (pc[t] = "register_body" /\ pc'[t] # "register_body") =>
              IF frame[t].stream_name \in DOMAIN data_streams
              THEN data_streams' = data_streams
              ELSE /\ DOMAIN data_streams' =
                          DOMAIN data_streams \cup {frame[t].stream_name}
                   /\ Cardinality(DOMAIN data_streams') =
                          Cardinality(DOMAIN data_streams) + 1
                   /\ data_streams'[frame[t].stream_name] =
                          [maxlen |-> buffer_size, items |-> <<>>]
                   /\ \A n \in DOMAIN data_streams :
                          data_streams'[n] = data_streams[n]
      ]_vars

\* C4, witness: register_stream runs on a registered stream that holds
\* samples.
RegisterOnFilledStream ==
    \E t \in Threads :
        /\ pc[t] = "register_body"
        /\ frame[t].caller = "thread"
        /\ frame[t].stream_name \in DOMAIN data_streams
        /\ data_streams[frame[t].stream_name].items # <<>>

\* --------------------------------------------------------------------- C5
\* C5: add_data_point on an unregistered name enters register_stream while
\* it owns the lock, and it can take the lock again, the one step of the
\* call that waits; it then holds the lock twice, and once when
\* register_stream has returned; the stream is registered when the call
\* goes on, the sample is in it before the call returns, and no call
\* raises.
AutoRegisterReentrant ==
    \A t \in Threads :
        /\ pc[t] = "add_register" =>
               /\ data_lock.owner = t
               /\ CanAcquire(data_lock, t)
               /\ frame[t].stream_name \notin DOMAIN data_streams
        /\ (pc[t] = "register_body" /\ frame[t].caller = "add_data_point") =>
               data_lock = [owner |-> t, count |-> 2]
        /\ pc[t] \in {"add_detect", "add_store", "add_count"} =>
               /\ data_lock = [owner |-> t, count |-> 1]
               /\ frame[t].stream_name \in DOMAIN data_streams
        /\ pc[t] = "add_count" =>
               /\ data_streams[frame[t].stream_name].items # <<>>
               /\ Last(data_streams[frame[t].stream_name].items).raw_value =
                      frame[t].value
        /\ raised[t] = None

\* C5, witness: inside add_data_point on an unregistered name, the thread
\* holds the lock twice.
ReacquiredOwnLock ==
    \E t \in Threads :
        /\ pc[t] = "register_body"
        /\ frame[t].caller = "add_data_point"
        /\ frame[t].stream_name \notin DOMAIN data_streams
        /\ data_lock = [owner |-> t, count |-> 2]

\* --------------------------------------------------------------------- C6
\* The z-score test of _detect_anomaly on the window w, in the code's float
\* arithmetic.
ZScoreAbove(w, value, mean_val, threshold) ==
    RLess(threshold,
          fabs(fdiv(fsub(value, mean_val), fsqrt(Variance(w, mean_val)))))

\* The flag C6 states for a sample of raw value "value" appended when the
\* 20 most recent prior raw values are w.
StatedFlag(w, value, threshold) ==
    /\ ~AllEqual(w)
    /\ ZScoreAbove(w, value, Mean(w), threshold)

\* C6, as stated: a sample's is_anomaly flag is true exactly when the stream
\* held at least 20 samples before the append, the population variance of
\* the 20 most recent prior raw values is non-zero (they are not all equal)
\* and the z-score is strictly greater than anomaly_threshold.
AnomalyIffZScoreExceeds ==
    \A n \in DOMAIN hist :
        \A i \in 1..Len(hist[n]) :
            hist[n][i].is_anomaly =
                /\ i > 20
                /\ StatedFlag(Raw(SubSeq(hist[n], i - 20, i - 1)),
                              hist[n][i].raw_value, anomaly_threshold)

\* --------------------------------------------------------------------- C7
\* The samples stream n has received: those appended and the one a call is
\* about to append.
Received(n) ==
    Len(hist[n]) + Cardinality({t \in Threads : /\ pc[t] = "add_store"
                                                /\ frame[t].stream_name = n})

\* C7: the first 20 samples of a stream, each appended to fewer than 20
\* samples, are stored with is_anomaly = false; a call that finds fewer
\* than 20 samples computes the flag false; anomalies_detected is 0 as long
\* as no stream has received more than 20 samples.
ColdStartNeverAnomalous ==
    /\ \A n \in DOMAIN hist :
           \A i \in 1..Min(Len(hist[n]), 20) : ~hist[n][i].is_anomaly
    /\ \A t \in Threads :
           (pc[t] = "add_store"
                /\ Len(data_streams[frame[t].stream_name].items) < 20)
               => ~frame[t].is_anomaly
    /\ (\A n \in DOMAIN hist : Received(n) <= 20)
           => performance_metrics.anomalies_detected = 0

\* C7, witness: the 20th sample of a stream is the outlier 10 after samples
\* of magnitude 1, and it is stored with is_anomaly = false.
ColdStartOutlierStored ==
    /\ "x_axis" \in DOMAIN hist
    /\ Len(hist["x_axis"]) = 20
    /\ hist["x_axis"][20].raw_value = F(10)
    /\ \A i \in 1..19 : Abs(hist["x_axis"][i].raw_value[1]) = 1
    /\ ~hist["x_axis"][20].is_anomaly
    /\ performance_metrics.anomalies_detected = 0

\* --------------------------------------------------------------------- C8
\* C8, as stated: a sample appended when the 20 most recent prior raw values
\* are all equal is stored with is_anomaly = false, and no call raises.
FlatWindowNeverAnomalous ==
    /\ \A n \in DOMAIN hist :
           \A i \in 21..Len(hist[n]) :
               AllEqual(Raw(SubSeq(hist[n], i - 20, i - 1)))
                   => ~hist[n][i].is_anomaly
    /\ \A t \in Threads : raised[t] = None

InterpolationKeepsEndpoints ==
    interp_result[1] =>
        IF Len(interp_values) < 4 THEN interp_result[2] = interp_values
        ELSE /\ Len(interp_result[2]) = Len(interp_values)
             /\ interp_result[2][1] = interp_values[1]
             /\ Last(interp_result[2]) = Last(interp_values)

\* C10, witness: an input of length 5 whose interior the interpolation
\* changed.
InterpolatedFive ==
    /\ interp_result[1]
    /\ Len(interp_values) = 5
    /\ interp_result[2] # interp_values


\* -------------------------------------------------------------------- C11
\* C11: for an input of length n >= 5 and every index i with
\* 2 <= i <= n - 3 (0-based), result[i] =
\* 0.5 * (2*p1 + (p2 - p0) + (2*p0 - 5*p1 + 4*p2 - p3)) with p0..p3 =
\* values[i-2], values[i-1], values[i], values[i+1]; the input 1, 2, 3, 4, 5
\* yields 3 at index 2.
InterpolationInterior ==
    interp_result[1] =>
        /\ \A i \in 2..(Len(interp_values) - 3) :
               At(interp_result[2], i) =
                   fmul(<<1, 2>>,
                        fadd(fadd(fmul(F(2), At(interp_values, i - 1)),
                                  fsub(At(interp_values, i),
                                       At(interp_values, i - 2))),
                             fsub(fadd(fsub(fmul(F(2), At(interp_values, i - 2)),
                                            fmul(F(5), At(interp_values, i - 1))),
                                       fmul(F(4), At(interp_values, i))),
                                  At(interp_values, i + 1))))
        /\ interp_values = <<F(1), F(2), F(3), F(4), F(5)>>
               => At(interp_result[2], 2) = F(3)

\* C11, witness: the ramp 1, 2, 3, 4, 5 was interpolated, with 3 at index 2.
InterpolatedRamp ==
    /\ interp_result[1]
    /\ interp_values = <<F(1), F(2), F(3), F(4), F(5)>>
    /\ At(interp_result[2], 2) = F(3)

\* -------------------------------------------------------------------- C12
\* The weighted average C12 states for index i: the values at
\* max(0, i-1) .. min(n, i+2) - 1, three of them for i = 1 and i = n - 2,
\* weighted 0.25, 0.5, 0.25 and divided by the sum of the weights used.
StatedNearEdge(values, i) ==
    fdiv(fadd(fadd(fadd(F(0), fmul(At(values, i - 1), <<1, 4>>)),
                   fmul(At(values, i), <<1, 2>>)),
              fmul(At(values, i + 1), <<1, 4>>)),
         fadd(fadd(fadd(F(0), <<1, 4>>), <<1, 2>>), <<1, 4>>))

\* C12: for an input of length n >= 4, the result at i = 1 and at
\* i = n - 2 is the weighted average of the three values around i, none
\* clipped, with weights 0.25, 0.5, 0.25 divided by their sum.
InterpolationNearEdge ==
    (interp_result[1] /\ Len(interp_values) >= 4) =>
        \A i \in {1, Len(interp_values) - 2} :
            /\ Min(Len(interp_values), i + 2) - Max(0, i - 1) = 3
            /\ At(interp_result[2], i) = StatedNearEdge(interp_values, i)

\* C12, witness: an input of length 4 whose two inner values the weighted
\* average changed.
InterpolatedFourInner ==
    /\ interp_result[1]
    /\ Len(interp_values) = 4
    /\ At(interp_result[2], 1) # At(interp_values, 1)
    /\ At(interp_result[2], 2) # At(interp_values, 2)


\* -------------------------------------------------------------------- C13
\* The last min(Len(points), window) of the points, in arrival order.
StatedWindow(points, window) ==
    SubSeq(points, Len(points) - Min(Len(points), window) + 1, Len(points))

\* C13: get_display_data returns three sequences of the common length
\* min(number of stored samples, display_window): the timestamps and the raw
\* values of the last display_window samples of the stream, in arrival
\* order, and the interpolation of their smoothed values, for every
\* 0 <= display_window <= buffer_size.
DisplayDataIsLastWindow ==
    \A t \in Threads :
        (pc[t] = "display_body" /\ frame[t].stream_name \in DOMAIN data_streams) =>
            \E d \in {DisplayData(data_streams, frame[t].stream_name,
                                  display_window)} :
            \E w \in {StatedWindow(data_streams[frame[t].stream_name].items,
                                   display_window)} :
                /\ Len(d[1]) = Min(Len(data_streams[frame[t].stream_name].items),
                                   display_window)
                /\ Len(d[2]) = Len(d[1])
                /\ Len(d[3]) = Len(d[1])
                /\ d[1] = Column(w, "timestamp")
                /\ d[2] = Column(w, "raw_value")
                /\ d[3] = cubic_interpolation(Column(w, "smoothed_value"))


\* -------------------------------------------------------------------- C14
\* C14: get_display_data on a name that is not registered, or on a
\* registered stream whose buffer is empty, returns three empty sequences,
\* raises nothing, does not register the name and leaves the streams, the
\* smoothed streams and the performance metrics as they were.
DisplayOfMissingIsEmpty ==
    [][\A t \in Threads :
          /\ (pc[t] = "idle" /\ pc'[t] = "display_body") => handler' = handler
          /\ (/\ pc[t] = "display_body"
              /\ pc'[t] = "idle"
              /\ \/ frame[t].stream_name \notin DOMAIN data_streams
                 \/ data_streams[frame[t].stream_name].items = <<>>)
             => /\ DisplayData(data_streams, frame[t].stream_name,
                               display_window) = <<<<>>, <<>>, <<>>>>
                /\ raised'[t] = None
                /\ DOMAIN data_streams' = DOMAIN data_streams
                /\ handler' = handler]_vars

\* C14, witness: get_display_data runs on a name that is not registered
\* while another stream holds samples.
DisplayOfUnregistered ==
    \E t \in Threads :
        /\ pc[t] = "display_body"
        /\ frame[t].stream_name \notin DOMAIN data_streams
        /\ \E n \in DOMAIN data_streams : data_streams[n].items # <<>>


\* -------------------------------------------------------------------- C15
\* C15: get_performance_stats on a handler that has received no sample
\* returns total_points = 0, anomalies = 0, avg_data_rate = 0 and
\* buffer_usage = 0 and raises nothing; in every state avg_data_rate is the
\* sum of the rate window divided by its length, or 0 for an empty window.
StatsOfFreshHandlerAndMeanRate ==
    /\ AvgRate(performance_metrics.data_rates) =
           IF Len(performance_metrics.data_rates.items) = 0 THEN F(0)
           ELSE fdiv(fsum(performance_metrics.data_rates.items),
                     F(Len(performance_metrics.data_rates.items)))
    /\ \A t \in Threads :
           (pc[t] = "stats_body" /\ Appended(hist) = 0) =>
               /\ PerformanceStats(data_streams, performance_metrics) =
                      [total_points |-> 0, anomalies |-> 0,
                       avg_data_rate |-> F(0), buffer_usage |-> 0]
               /\ raised[t] = None

\* C15, witness: get_performance_stats runs on a handler that has received
\* no sample.
StatsOfFreshHandler ==
    \E t \in Threads :
        /\ pc[t] = "stats_body"
        /\ Appended(hist) = 0
        /\ performance_metrics.data_rates.items = <<>>


\* -------------------------------------------------------------------- C16
\* C16: every sample stored in a stream buffer has quality_score 0.5 if
\* its is_anomaly flag is true and 1.0 otherwise.
QualityScoreFollowsFlag ==
    \A n \in DOMAIN data_streams :
        \A i \in 1..Len(data_streams[n].items) :
            /\ data_streams[n].items[i].is_anomaly
                   => data_streams[n].items[i].quality_score = <<1, 2>>
            /\ ~data_streams[n].items[i].is_anomaly
                   => data_streams[n].items[i].quality_score = <<1, 1>>

\* C16, witness: a buffer holds a flagged sample of quality 0.5 and an
\* unflagged sample of quality 1.0.
FlaggedAndUnflaggedStored ==
    \E n \in DOMAIN data_streams :
        \E i, j \in 1..Len(data_streams[n].items) :
            /\ data_streams[n].items[i].is_anomaly
            /\ data_streams[n].items[i].quality_score = <<1, 2>>
            /\ ~data_streams[n].items[j].is_anomaly
            /\ data_streams[n].items[j].quality_score = <<1, 1>>


\* -------------------------------------------------------------------- C17
\* C17: total_points and anomalies_detected change only as follows: an
\* add_data_point adds 1 to anomalies_detected when it flags its sample, and
\* nothing otherwise, stores the sample with that flag, and adds exactly 1 to
\* total_points; the reset sets both to 0; register_stream,
\* get_display_data, get_performance_stats and every other step leave both
\* unchanged.
CountersMonotonicBetweenResets ==
    [][/\ \A t \in Threads :
            /\ (pc[t] = "add_detect" /\ pc'[t] = "add_store") =>
                   /\ performance_metrics'.anomalies_detected =
                          performance_metrics.anomalies_detected
                              + (IF frame'[t].is_anomaly THEN 1 ELSE 0)
                   /\ performance_metrics'.total_points =
                          performance_metrics.total_points
            /\ (pc[t] = "add_store" /\ pc'[t] = "add_count") =>
                   /\ Last(hist'[frame[t].stream_name]).is_anomaly =
                          frame[t].is_anomaly
                   /\ performance_metrics' = performance_metrics
            /\ (pc[t] = "add_count" /\ pc'[t] = "idle") =>
                   /\ performance_metrics'.total_points =
                          performance_metrics.total_points + 1
                   /\ performance_metrics'.anomalies_detected =
                          performance_metrics.anomalies_detected
            /\ (pc[t] = "reset_body" /\ pc'[t] = "idle") =>
                   /\ performance_metrics'.total_points = 0
                   /\ performance_metrics'.anomalies_detected = 0
       /\ (\A t \in Threads :
              pc[t] \notin {"add_detect", "add_count", "reset_body"}
              \/ pc'[t] = pc[t]) =>
              /\ performance_metrics'.total_points =
                     performance_metrics.total_points
              /\ performance_metrics'.anomalies_detected =
                     performance_metrics.anomalies_detected]_vars

\* C17, witness: the reset runs on counters that include a flagged sample.
ResetOfCountedAnomaly ==
    \E t \in Threads :
        /\ pc[t] = "reset_body"
        /\ performance_metrics.anomalies_detected > 0
        /\ performance_metrics.total_points > AnomalyWindow


\* -------------------------------------------------------------------- C18
\* C18: data_rates holds at most 50 entries, each strictly positive; an
\* add_data_point pushes 1 / (now - last_update_time), dropping the oldest
\* entry of a full window, exactly when now - last_update_time > 0, and leaves
\* the window as it was otherwise; it sets last_update_time to now in both
\* cases.
RateWindowLaw ==
    /\ [](/\ Len(performance_metrics.data_rates.items) <= 50
          /\ \A i \in 1..Len(performance_metrics.data_rates.items) :
                 RLess(F(0), performance_metrics.data_rates.items[i]))
    /\ [][\A t \in Threads :
             (pc[t] = "add_count" /\ pc'[t] = "idle") =>
                 /\ performance_metrics'.last_update_time = clock
                 /\ performance_metrics'.data_rates.items =
                        IF clock - performance_metrics.last_update_time > 0
                        THEN IF Len(performance_metrics.data_rates.items) < 50
                             THEN Append(performance_metrics.data_rates.items,
                                         Lit(1, clock - performance_metrics
                                                            .last_update_time))
                             ELSE Append(Tail(performance_metrics.data_rates.items),
                                         Lit(1, clock - performance_metrics
                                                            .last_update_time))
                        ELSE performance_metrics.data_rates.items]_vars

\* C18, witness: two rates were pushed onto a window of 49, so that the
\* oldest entry was dropped.
RateWindowOverflowed ==
    /\ Appended(hist) = PrefilledRates + 2
    /\ Len(performance_metrics.data_rates.items) = 50
    /\ performance_metrics.data_rates.items[1] = Lit(1, 3)
    /\ performance_metrics.data_rates.items[49] = F(1)
    /\ performance_metrics.data_rates.items[50] = Lit(1, 2)
    /\ \A t \in Threads : pc[t] = "idle"


\* -------------------------------------------------------------------- C19
\* The pending composite: Empty with its six fields unset, Complete with its
\* three values set, PartiallyFilled otherwise.
Phase(sample) ==
    IF sample = UnsetSample THEN "Empty"
    ELSE IF Complete(sample) THEN "Complete"
    ELSE "PartiallyFilled"

\* C19: the pending composite moves Empty -> PartiallyFilled -> Complete ->
\* Empty; samples are appended to the streams only by the callback that holds
\* the assembly lock on a Complete composite, which its own assignment
\* completed; that callback clears the six fields, after the three values went
\* to x_axis, y_axis and z_axis, while it still holds the lock; whenever the
\* assembly lock is free the composite has an axis unset.
AssemblyProtocol ==
    /\ [](module_data_lock = Unlocked => ~Complete(current_sample))
    /\ [][/\ <<Phase(current_sample), Phase(current_sample')>> \in
                 {<<"Empty", "Empty">>, <<"Empty", "PartiallyFilled">>,
                  <<"PartiallyFilled", "PartiallyFilled">>,
                  <<"PartiallyFilled", "Complete">>,
                  <<"Complete", "Complete">>, <<"Complete", "Empty">>}
          /\ (~Complete(current_sample) /\ Complete(current_sample')) =>
                 \E t \in Callbacks :
                     /\ callback[t].pc = "set"
                     /\ module_data_lock.owner = t
                     /\ module_data_lock' = module_data_lock
          /\ hist' # hist =>
                 \E t \in Callbacks :
                     /\ callback[t].pc = "add"
                     /\ module_data_lock.owner = t
                     /\ module_data_lock' = module_data_lock
                     /\ Complete(current_sample)
                     /\ current_sample' = current_sample
          /\ (Complete(current_sample) /\ ~Complete(current_sample')) =>
                 \E t \in Callbacks :
                     /\ callback[t].pc = "clear"
                     /\ module_data_lock.owner = t
                     /\ module_data_lock' = module_data_lock
                     /\ current_sample' = UnsetSample
                     /\ \A a \in Axes :
                            /\ Len(hist[StreamOf[a]]) = sample_counter
                            /\ Last(hist[StreamOf[a]]).raw_value =
                                   current_sample[ValueKey[a]][1]]_vars

\* C19, witness: a callback has forwarded a composite of three different
\* arrivals and cleared it, and still holds the assembly lock.
CompositeForwardedAndCleared ==
    \E t \in Callbacks :
        /\ callback[t].pc = "release"
        /\ module_data_lock.owner = t
        /\ current_sample = UnsetSample
        /\ sample_counter = 1
        /\ \A a \in Axes : Len(hist[StreamOf[a]]) = 1
        /\ hist["x_axis"][1].raw_value # hist["y_axis"][1].raw_value

\* -------------------------------------------------------------------- C20
\* C20: whenever get_display_data or get_performance_stats reads the
\* handler, the same number of samples has been appended to x_axis, y_axis
\* and z_axis.
ConsumerSeesWholeComposites ==
    \A t \in Threads :
        Reading(t) =>
            \A a, b \in Axes : Len(hist[StreamOf[a]]) = Len(hist[StreamOf[b]])


\* -------------------------------------------------------------------- C21
\* C21: at most one thread is inside register_stream, add_data_point, the
\* reset, get_display_data or get_performance_stats, and whenever one of the
\* two reader calls reads the handler, anomalies_detected is the number of
\* samples appended since the last reset whose is_anomaly flag is true, and
\* is at most total_points.
ReaderSeesAnomaliesEqualFlagged ==
    \A t \in Threads :
        /\ pc[t] # "idle" => \A u \in Threads \ {t} : pc[u] = "idle"
        /\ Reading(t) =>
            /\ performance_metrics.anomalies_detected =
                   Cardinality({ni \in UNION {{<<n, i>> : i \in 1..Len(hist[n])} :
                                                 n \in DOMAIN hist} :
                                   hist[ni[1]][ni[2]].is_anomaly})
            /\ performance_metrics.anomalies_detected
                   <= performance_metrics.total_points

\* C21, witness: a reader call runs after a flagged sample was appended.
ReaderAfterFlaggedSample ==
    \E t \in Threads :
        /\ Reading(t)
        /\ performance_metrics.anomalies_detected > 0
        /\ \E n \in DOMAIN hist : \E i \in 1..Len(hist[n]) : hist[n][i].is_anomaly


CompositeCarriesLatestReadings ==
    /\ [](\A a \in Axes : sample_counter <= arrivals[a])
    /\ [][/\ \A t \in Callbacks :
                /\ (callback[t].pc = "set" /\ callback'[t].pc = "check") =>
                       current_sample' =
                           [k \in DOMAIN current_sample |->
                               IF k = ValueKey[callback[t].axis]
                               THEN <<callback[t].value>>
                               ELSE IF k = TimestampKey[callback[t].axis]
                               THEN <<clock>>
                               ELSE current_sample[k]]
                /\ (callback[t].pc = "add" /\ callback'[t] # callback[t]) =>
                       \E a \in Axes :
                           /\ a = AxisOrder[callback[t].next]
                           /\ hist' = [hist EXCEPT ![StreamOf[a]] =
                                          Append(@, Last(hist'[StreamOf[a]]))]
                           /\ Last(hist'[StreamOf[a]]).raw_value =
                                  current_sample[ValueKey[a]][1]
                           /\ Last(hist'[StreamOf[a]]).timestamp =
                                  current_sample[TimestampKey[a]][1]
          /\ current_sample' # current_sample =>
                 \E t \in Callbacks :
                     \/ callback[t].pc = "set"
                     \/ callback[t].pc = "clear" /\ current_sample' = UnsetSample]_vars

\* C28, witness: a composite was flushed after x_axis had received two
\* readings and the other axes one each.
FlushedAfterOverwrite ==
    \E t \in Callbacks :
        /\ callback[t].pc = "release"
        /\ current_sample = UnsetSample
        /\ sample_counter = 1
        /\ arrivals = [a \in Axes |-> IF a = "x" THEN 2 ELSE 1]


ReadsArePure ==
    [][\A t \in Threads :
          (/\ pc[t] # pc'[t]
           /\ \/ pc[t] \in {"display_body", "stats_body"}
              \/ pc'[t] \in {"display_body", "stats_body"})
          => /\ data_streams' = data_streams
             /\ smoothed_streams' = smoothed_streams
             /\ performance_metrics' = performance_metrics
             /\ \A n \in {frame[t].stream_name} \cap Names :
                    DisplayData(data_streams', n, display_window')
                        = DisplayData(data_streams, n, display_window)]_vars

\* C25, witness: a reader is inside get_display_data for a stream whose
\* returned smoothed values are interpolated, that is, differ from the
\* stored ones.
ReaderOfInterpolatedStream ==
    \E t \in Consumers, n \in DOMAIN data_streams :
        /\ pc[t] = "display_body"
        /\ frame[t].stream_name = n
        /\ DisplayData(data_streams, n, display_window)[3]
               # Column(LastN(data_streams[n].items, display_window),
                        "smoothed_value")


\* -------------------------------------------------------------------- C30
\* C30: whatever a stream held before, after a reset the first sample added
\* to it has smoothed_value = raw_value, and none of the first 20 samples
\* added to it after the reset is flagged anomalous.
FreshStartAfterReset ==
    \A n \in reset_streams :
        /\ hist[n] # <<>> => hist[n][1].smoothed_value = hist[n][1].raw_value
        /\ \A k \in 1..Len(hist[n]) : k <= AnomalyWindow => ~hist[n][k].is_anomaly

\* C30, witness: a stream was reset and has since received 20 unflagged
\* samples, the last two of them outliers, and a 21st that is flagged.
RefilledPastWindowAfterReset ==
    /\ "x_axis" \in reset_streams
    /\ Len(hist["x_axis"]) = AnomalyWindow + 1
    /\ hist["x_axis"][AnomalyWindow - 1].raw_value = F(10)
    /\ hist["x_axis"][AnomalyWindow].raw_value = F(0 - 10)
    /\ hist["x_axis"][AnomalyWindow + 1].is_anomaly


\* -------------------------------------------------------------------- C27
\* C27, as stated: whenever no callback of the client is executing, the
\* buffers of x_axis, y_axis and z_axis hold the same number of samples,
\* with the reset among the consumer's operations.
BuffersLevelBetweenCallbacks ==
    (\A t \in Callbacks : callback[t].pc = "idle")
        => \A a \in Axes :
               Len(data_streams[StreamOf[a]].items)
                   = Len(data_streams["x_axis"].items)


EveryCallReturns ==
    /\ [](/\ module_data_lock.owner \notin Consumers
          /\ \A t \in Consumers :
                 pc[t] # "idle" => data_lock.owner = t)
    /\ \A t \in Callbacks : (callback[t].pc # "idle") ~> (callback[t].pc = "idle")
    /\ \A t \in Consumers : (pc[t] # "idle") ~> (pc[t] = "idle")

\* C26, witness: a callback holds the assembly lock and is about to forward
\* a sample while the consumer holds the handler's lock.
CallbackWaitsForHandlerLock ==
    \E t \in Callbacks, c \in Consumers :
        /\ callback[t].pc = "add"
        /\ module_data_lock.owner = t
        /\ data_lock.owner = c
        /\ pc[c] \in {"save_body", "reset_body", "display_body", "stats_body"}


\* -------------------------------------------------------------------- C23
\* C23: in test2.py, move_new_data_to_plot_buffer appends all samples of
\* the new buffer, in order, to the plot buffer, leaves the new buffer
\* empty and returns True exactly when it moved a sample; and however the
\* callbacks and the moves interleave, the plot buffer followed by the new
\* buffer holds every composite assembled so far once, their sample_id
\* counting 1, 2, .., sample_counter.
MoveKeepsEverySampleOnce ==
    /\ [](/\ Len(data_buffer_plot \o data_buffer_new) = sample_counter
          /\ \A i \in 1..Len(data_buffer_plot \o data_buffer_new) :
                 (data_buffer_plot \o data_buffer_new)[i].sample_id = i)
    /\ [][\A t \in Consumers :
             (pc[t] = "move_body" /\ pc'[t] = "idle")
             => /\ data_buffer_plot' = data_buffer_plot \o data_buffer_new
                /\ data_buffer_new' = <<>>
                /\ move_result' = <<data_buffer_new # <<>>>>]_vars

\* C23, witness: a move has returned True, a later composite is in the new
\* buffer, and the consumer is inside the next move.
SecondMoveAfterNewSample ==
    \E t \in Consumers :
        /\ pc[t] = "move_body"
        /\ data_buffer_plot # <<>>
        /\ data_buffer_new # <<>>


\* -------------------------------------------------------------------- C31
\* C31: a handler whose buffer_size is below 20 never flags a sample and
\* its anomalies_detected stays 0, whatever add_data_point calls it
\* receives: no stream of it ever holds the 20 samples the detector asks for.
SmallBufferNeverFlags ==
    buffer_size < AnomalyWindow
        => /\ \A n \in DOMAIN hist :
                  \A i \in 1..Len(hist[n]) : hist[n][i].is_anomaly = FALSE
           /\ \A n \in DOMAIN data_streams :
                  Len(data_streams[n].items) < AnomalyWindow
           /\ performance_metrics.anomalies_detected = 0

\* C31, witness: a stream with a buffer of 19 samples has received 21
\* samples, the last an outlier 10 after samples of magnitude about 1.
SmallBufferPastWindow ==
    /\ buffer_size = AnomalyWindow - 1
    /\ Len(hist["x_axis"]) > AnomalyWindow
    /\ Last(hist["x_axis"]).raw_value = F(10)
    /\ \A i \in 1..AnomalyWindow : RLess(hist["x_axis"][i].raw_value, F(2))


\* -------------------------------------------------------------------- C32
\* C32, as stated: _cubic_interpolation is the identity on arithmetic
\* progressions: for an input of length >= 4 whose consecutive differences
\* are all equal, constant inputs among them, the list returned equals the
\* input at every index.
InterpolationFixesProgressions ==
    (/\ interp_result[1]
     /\ Len(interp_values) >= MinInterpLen
     /\ \A i \in 2..(Len(interp_values) - 1) :
            fsub(interp_values[i + 1], interp_values[i])
                = fsub(interp_values[i], interp_values[i - 1]))
        => interp_result[2] = interp_values


\* -------------------------------------------------------------------- C34
\* C34: in _cubic_interpolation, for an input of length >= 4 and a
\* near-edge index i (1 or len - 2), the loop averages exactly three values
\* and its weight_sum is exactly 1.0, so that dividing by weight_sum leaves
\* weighted_sum as it is, and the branch that returns values[i] unchanged
\* is not taken.
NearEdgeWeightsSumToOne ==
    (interp_result[1] /\ Len(interp_values) >= MinInterpLen) =>
        \A i \in {1, Len(interp_values) - 2} :
            \E window \in {Slice(interp_values, Max(0, i - 1),
                                 Min(Len(interp_values), i + 2))} :
            \E sums \in {WeightedLoop(window, 0, <<F(0), F(0)>>)} :
                /\ ~(i >= 2 /\ i < Len(interp_values) - 2)
                /\ Len(window) = Len(Weights)
                /\ Len(window) = 3
                /\ sums[2] = <<1, 1>>
                /\ RLess(F(0), sums[2])
                /\ fdiv(sums[1], sums[2]) = sums[1]
                /\ At(interp_result[2], i) = sums[1]

\* C34, witness: an input of five values or more was interpolated and both
\* near-edge results differ from the input there.
NearEdgeResultsAveraged ==
    /\ interp_result[1]
    /\ Len(interp_values) > MinInterpLen
    /\ \A i \in {1, Len(interp_values) - 2} :
           At(interp_result[2], i) # At(interp_values, i)


\* -------------------------------------------------------------------- C33
\* C33, as stated: in test2.py, whenever the plot buffer is non-empty
\* graph_initialized is true, after any sequence of interval ticks, refresh
\* clicks and callbacks.  (That graph_initialized never returns from true
\* to false is the statement's second half; no step of the model assigns
\* it false.)
PlotBufferImpliesGraphInitialized ==
    data_buffer_plot # <<>> => graph_initialized

====
